---- MODULE Spec2Model ----
(***************************************************************************)
(* bliss-analyser: the catalog (db.rs), the cue splitter (cue.rs) and the  *)
(* scan / dispatch / reduce pipeline (analyse.rs) as state machines.       *)
(*                                                                         *)
(* Paths and keys are sequences of tokens: a name, an extension, a path    *)
(* separator, the cue marker, a track index.  String operations of the     *)
(* source (replace, find, truncate, prefix match) act on the tokens.       *)
(***************************************************************************)
EXTENDS Integers, Sequences, FiniteSets, TLC

VARIABLES
    windows,    \* cfg!(windows): the build target, fixed for a behaviour
    fs,         \* files on disk: a set of <<root, relative path>>
    Tracks,     \* the Tracks table: a set of rows
    nops,       \* catalog operations performed so far (bounds the behaviour)
    hist,       \* the last catalog operation: its name, arguments, table before
    overflow_checks, \* the build checks integer overflow (debug profile)
    sheet,      \* cue::parse's input: what rcue read from the cue file
    cue_out,    \* cue::parse's outcome: returned tracks, a panic, or no return
    cfg,        \* analyse_files' arguments and the build's features
    bad,        \* the inputs the Analyzer fails on (a property of the files)
    mtime,      \* modification time of each file on disk
    cached,     \* files whose tags carry a feature vector this program wrote
    env,        \* what the system refuses: opening the catalog, roots, directories
    run,        \* which invocation of analyse_files this is
    pc,         \* where analyse_files is
    root_i,     \* index into mpaths of the root being handled
    scan,       \* track_paths, cue_tracks, file_count, tagged_file_count
    todo,       \* outcomes the Analyzer has yet to hand to the reducer
    in_hand,    \* the (identity, outcome) pair the reducer is handling
    red,        \* the reducer's locals: analysed, failed, tag_error, reported_cue, progress
    changes_made,
    TERMINATE_ANALYSIS_FLAG,
    obs,        \* what the runs have done so far, kept for the properties
    num_cpus,   \* num_cpus::get()
    handles,    \* the threads analyze_cue_streaming spawned: chunk left, position
    chan        \* the mpsc channel: what is queued, whether the Receiver lives

dbvars == <<windows, fs, Tracks, nops, hist>>
cuevars == <<overflow_checks, sheet, cue_out>>
runvars == <<cfg, bad, mtime, cached, env, run, pc, root_i, scan, todo, in_hand, red,
             changes_made, TERMINATE_ANALYSIS_FLAG, obs, num_cpus, handles, chan>>

vars == <<windows, fs, Tracks, nops, hist, overflow_checks, sheet, cue_out,
          cfg, bad, mtime, cached, env, run, pc, root_i, scan, todo, in_hand, red,
          changes_made, TERMINATE_ANALYSIS_FLAG, obs, num_cpus, handles, chan>>

-----------------------------------------------------------------------------
(* Bounds *)

MaxDbOps == 3      \* catalog operations in one behaviour of SpecDb
MaxSheetTracks == 3 \* TRACK entries of a cue sheet

-----------------------------------------------------------------------------
(* Strings *)

CUE_MARKER == ".CUE_TRACK."
FWD == "/"
BACK == "\\"

\* str.replace(from, to)
Replace(s, from, to) == [i \in 1..Len(s) |-> IF s[i] = from THEN to ELSE s[i]]

\* str.find(pat): the position of the first occurrence, 0 for None
Find(s, pat) ==
    IF \E i \in 1..Len(s) : s[i] = pat
    THEN CHOOSE i \in 1..Len(s) : s[i] = pat /\ \A j \in 1..(i - 1) : s[j] # pat
    ELSE 0

\* String::truncate at the position of a match: keeps what is before it
TruncateAt(s, pos) == SubSeq(s, 1, pos - 1)

\* SQL: File LIKE "<line>%"
LikePrefix(file, line) ==
    /\ Len(line) <= Len(file)
    /\ \A i \in 1..Len(line) : file[i] = line[i]

SetMax(S) == CHOOSE x \in S : \A y \in S : y <= x

-----------------------------------------------------------------------------
(* Inputs *)

Roots == {"R1", "R2"}
mpaths == <<"R1", "R2">>

PlainA  == <<"a", "/", "b", ".mp3">>
PlainAw == <<"a", "\\", "b", ".mp3">>
PlainD  == <<"d", ".mp3">>
Sheet   == <<"c", ".flac">>
SheetT1 == <<"c", ".flac", ".CUE_TRACK.", "1">>
SheetT2 == <<"c", ".flac", ".CUE_TRACK.", "2">>

KeyPool == {PlainA, PlainAw, PlainD, SheetT1, SheetT2}

\* File systems the catalog operations run against.
FsPool ==
    { {<<"R1", PlainA>>, <<"R2", Sheet>>},
      {<<"R2", PlainA>>, <<"R1", PlainD>>},
      {<<"R1", PlainAw>>, <<"R1", Sheet>>, <<"R2", PlainD>>},
      {} }

EmptyMeta ==
    [title |-> "", artist |-> "", album_artist |-> "", album |-> "",
     genre |-> "", duration |-> 180]
MetaRock ==
    [title |-> "t1", artist |-> "p1", album_artist |-> "", album |-> "l1",
     genre |-> "Rock", duration |-> 200]
MetaJazz ==
    [title |-> "t2", artist |-> "", album_artist |-> "p2", album |-> "",
     genre |-> "Jazz", duration |-> 300]

\* What add_track is called with: tags and a feature vector
TrackPool ==
    { [meta |-> MetaRock, analysis |-> "v1"],
      [meta |-> MetaJazz, analysis |-> "v2"] }

\* Lines of an ignore file: a path prefix, or "SQL:" and a predicate on a row.
\* The predicates are  Genre='<g>'  and one SQLite rejects.
BadSql == "Genre=="
LineA == [sql |-> FALSE, text |-> <<"a">>]
LineSheet == [sql |-> FALSE, text |-> <<"c", ".flac">>]
LineRock == [sql |-> TRUE, text |-> "Rock"]
LineBad == [sql |-> TRUE, text |-> BadSql]

\* Ignore files
IgnoreFiles ==
    { <<>>, <<LineA>>, <<LineRock>>, <<LineSheet, LineBad>>, <<LineRock, LineA>> }

-----------------------------------------------------------------------------
(* db.rs *)

\* Metadata::is_empty
is_empty(meta) ==
    /\ meta.title = ""
    /\ meta.artist = ""
    /\ meta.album_artist = ""
    /\ meta.album = ""
    /\ meta.genre = ""

\* Path::exists for root.join(path).  Windows accepts either separator.
PathExists(root, path) ==
    IF windows
    THEN \E e \in fs : e[1] = root /\ Replace(e[2], BACK, FWD) = Replace(path, BACK, FWD)
    ELSE <<root, path>> \in fs

\* SQLite's rowid for a new row of a table without AUTOINCREMENT
NextRowid(T) == IF T = {} THEN 1 ELSE SetMax({r.rowid : r \in T}) + 1

\* INSERT INTO Tracks: File is the primary key (Db::init), a duplicate is an error
SqlInsertOk(T, file) == \A r \in T : r.File # file

SqlInsert(T, file, meta, analysis) ==
    IF SqlInsertOk(T, file)
    THEN T \cup {[rowid |-> NextRowid(T), File |-> file, meta |-> meta,
                  analysis |-> analysis, Ignore |-> 0]}
    ELSE T

\* An UPDATE that also sets Ignore=0
SqlUpdateIgnore(T, id, meta, analysis) ==
    {IF r.rowid = id
     THEN [r EXCEPT !.meta = meta, !.analysis = analysis, !.Ignore = 0]
     ELSE r : r \in T}

\* UPDATE Tracks SET <metadata>, <analysis> WHERE rowid=id
SqlUpdate(T, id, meta, analysis) ==
    {IF r.rowid = id THEN [r EXCEPT !.meta = meta, !.analysis = analysis] ELSE r : r \in T}

\* Db::get_rowid with the separator left as it is
get_rowid_raw(T, path) ==
    LET hits == {r \in T : r.File = path}
    IN  IF hits = {} THEN 0 ELSE (CHOOSE r \in hits : TRUE).rowid

\* Db::get_rowid
get_rowid(T, path) ==
    LET db_path == IF windows THEN Replace(path, BACK, FWD) ELSE path
        hits == {r \in T : r.File = db_path}
    IN  IF hits = {} THEN 0 ELSE (CHOOSE r \in hits : TRUE).rowid

\* Db::add_track that inserts without looking the key up
add_track_blind(T, path, meta, analysis) ==
    LET db_path == IF windows THEN Replace(path, BACK, FWD) ELSE path
    IN  SqlInsert(T, db_path, meta, analysis)

\* Db::add_track
add_track(T, path, meta, analysis) ==
    LET db_path == IF windows THEN Replace(path, BACK, FWD) ELSE path
        id == get_rowid(T, path)
    IN  IF id <= 0
        THEN SqlInsert(T, db_path, meta, analysis)
        ELSE SqlUpdate(T, id, meta, analysis)

\* Db::get_track_count
get_track_count(T) == Cardinality(T)

\* The path remove_old looks for on disk, with the cue suffix left on
old_path_unstripped(file) ==
    IF windows THEN Replace(file, FWD, BACK) ELSE file

\* The path remove_old looks for on disk for a stored key
old_path(file) ==
    LET s == Find(file, CUE_MARKER)
        db_path == IF s > 0 THEN TruncateAt(file, s) ELSE file
    IN  IF windows THEN Replace(db_path, FWD, BACK) ELSE db_path

\* Db::remove_old: the keys it selects for removal
to_remove(T, roots) ==
    {r.File : r \in {x \in T : \A i \in 1..Len(roots) : ~PathExists(roots[i], old_path(x.File))}}

\* Db::remove_old: the table it leaves
remove_old(T, roots, dry_run) ==
    IF Cardinality(to_remove(T, roots)) > 0 /\ ~dry_run
    THEN {r \in T : r.File \notin to_remove(T, roots)}
    ELSE T

\* Db::clear_ignore that leaves the flags as they are
clear_ignore_noop(T) == T

\* Db::clear_ignore
clear_ignore(T) == {[r EXCEPT !.Ignore = 0] : r \in T}

\* Db::set_ignore
set_ignore(T, line) ==
    IF line.sql
    THEN IF line.text = BadSql
         THEN T
         ELSE {IF r.meta.genre = line.text THEN [r EXCEPT !.Ignore = 1] ELSE r : r \in T}
    ELSE {IF LikePrefix(r.File, line.text) THEN [r EXCEPT !.Ignore = 1] ELSE r : r \in T}

RECURSIVE apply_ignore_lines(_, _)
apply_ignore_lines(T, lines) ==
    IF lines = <<>> THEN T
    ELSE apply_ignore_lines(set_ignore(T, Head(lines)), Tail(lines))

\* update_ignore: clear every flag, then apply each line of the ignore file
update_ignore(T, lines) == apply_ignore_lines(clear_ignore(T), lines)

-----------------------------------------------------------------------------
(* The catalog's operations, in any order *)

DbIdle ==
    /\ windows = FALSE
    /\ fs = {}
    /\ Tracks = {}
    /\ nops = 0
    /\ hist = [op |-> "init"]

CueIdle ==
    /\ overflow_checks = FALSE
    /\ sheet = [ok |-> FALSE]
    /\ cue_out = [outcome |-> "idle"]

EmptyScan ==
    [track_paths |-> <<>>, cue_tracks |-> <<>>, file_count |-> 0,
     tagged_file_count |-> 0, status |-> "ok", db |-> {}, writes |-> 0]

NewReducer ==
    [analysed |-> 0, failed |-> <<>>, tag_error |-> <<>>, reported_cue |-> {},
     progress |-> 0]

\* What is remembered about a run for the properties: the write statements it
\* ran on the table, the outcomes its reducers are done with, whether Ctrl-C
\* came, how the last reducer loop ended, the plain files that failed (with
\* the modification time they had), the run before, and the file_count
\* of its scans added up
NewObs ==
    [writes |-> 0, handled |-> {}, cancelled |-> FALSE, loop |-> "none",
     failures |-> {}, env_changed |-> FALSE, prev |-> [valid |-> FALSE],
     discovered |-> 0]

DispatchIdle ==
    /\ num_cpus = 0
    /\ handles = <<>>
    /\ chan = [queue |-> <<>>, rx |-> FALSE]

RunIdle ==
    /\ cfg = [ffmpeg |-> FALSE]
    /\ bad = {}
    /\ mtime = <<>>
    /\ cached = {}
    /\ env = [db_ok |-> TRUE, bad_roots |-> {}, locked |-> {}]
    /\ run = 0
    /\ pc = "idle"
    /\ root_i = 0
    /\ scan = EmptyScan
    /\ todo = {}
    /\ in_hand = [kind |-> "none"]
    /\ red = NewReducer
    /\ changes_made = FALSE
    /\ TERMINATE_ANALYSIS_FLAG = FALSE
    /\ obs = NewObs
    /\ DispatchIdle

InitDb ==
    /\ CueIdle
    /\ RunIdle
    /\ windows \in BOOLEAN
    /\ fs \in FsPool
    /\ Tracks = {}
    /\ nops = 0
    /\ hist = [op |-> "init"]

AddTrack ==
    /\ nops < MaxDbOps
    /\ \E path \in KeyPool, t \in TrackPool :
        /\ Tracks' = add_track(Tracks, path, t.meta, t.analysis)
        /\ hist' = [op |-> "add_track", path |-> path, meta |-> t.meta,
                    analysis |-> t.analysis, before |-> Tracks]
    /\ nops' = nops + 1
    /\ UNCHANGED <<windows, fs, cuevars, runvars>>

RemoveOld ==
    /\ nops < MaxDbOps
    /\ \E dry_run \in BOOLEAN :
        /\ Tracks' = remove_old(Tracks, mpaths, dry_run)
        /\ hist' = [op |-> "remove_old", dry_run |-> dry_run, before |-> Tracks]
    /\ nops' = nops + 1
    /\ UNCHANGED <<windows, fs, cuevars, runvars>>

UpdateIgnore ==
    /\ nops < MaxDbOps
    /\ \E lines \in IgnoreFiles :
        /\ Tracks' = update_ignore(Tracks, lines)
        /\ hist' = [op |-> "update_ignore", lines |-> lines, before |-> Tracks]
    /\ nops' = nops + 1
    /\ UNCHANGED <<windows, fs, cuevars, runvars>>

NextDb == AddTrack \/ RemoveOld \/ UpdateIgnore

SpecDb == InitDb /\ [][NextDb]_vars

-----------------------------------------------------------------------------
(* Properties of the catalog *)

\* The file a stored key stands for: the key up to its cue marker
UnderlyingFile(key) ==
    IF \E i \in 1..Len(key) : key[i] = CUE_MARKER
    THEN SubSeq(key, 1, (CHOOSE i \in 1..Len(key) :
                            key[i] = CUE_MARKER /\ \A j \in 1..(i - 1) : key[j] # CUE_MARKER) - 1)
    ELSE key

FileOnDisk(key) == \E root \in Roots : PathExists(root, UnderlyingFile(key))

\* C2: a live prune leaves exactly the rows whose underlying file (the key
\* with the cue marker and index stripped) exists under some root; the
\* sub-track rows of one cue parent are kept or removed together.
C2_PruneCorrect ==
    (hist.op = "remove_old" /\ ~hist.dry_run) =>
        /\ Tracks = {r \in hist.before : FileOnDisk(r.File)}
        /\ \A r1, r2 \in hist.before :
            UnderlyingFile(r1.File) = UnderlyingFile(r2.File)
                => (r1 \in Tracks <=> r2 \in Tracks)

C2_Witness ==
    /\ hist.op = "remove_old"
    /\ ~hist.dry_run
    /\ \E r \in Tracks : UnderlyingFile(r.File) # r.File
    /\ hist.before \ Tracks # {}

\* Whether a line of the ignore file selects a row
LineMatches(r, line) ==
    IF line.sql
    THEN line.text # BadSql /\ r.meta.genre = line.text
    ELSE \E n \in 0..Len(r.File) : SubSeq(r.File, 1, n) = line.text

\* C6: after the ignore rules are applied, a row is flagged if and only if
\* it matches some rule of the rule set just applied, whatever was applied
\* before; nothing else of the table changes.
C6_IgnoreReset ==
    hist.op = "update_ignore" =>
        /\ \A r \in Tracks :
            r.Ignore = 1 <=> \E i \in 1..Len(hist.lines) : LineMatches(r, hist.lines[i])
        /\ {[r EXCEPT !.Ignore = 0] : r \in Tracks}
             = {[r EXCEPT !.Ignore = 0] : r \in hist.before}

C6_Witness ==
    /\ hist.op = "update_ignore"
    /\ hist.lines # <<>>
    /\ \E r \in hist.before : r.Ignore = 1 /\ [r EXCEPT !.Ignore = 0] \in Tracks

SameModuloSeparator(p, q) == Replace(p, BACK, FWD) = Replace(q, BACK, FWD)

Collapsed(path) ==
    /\ \A k \in KeyPool : SameModuloSeparator(k, path) => get_rowid(Tracks, k) > 0
    /\ Cardinality({r \in Tracks : SameModuloSeparator(r.File, path)}) = 1

\* C7 as stated: after an upsert, every key that differs from the upserted
\* one only in the separator is found, and there is one row for them all.
C7_Original == hist.op = "add_track" => Collapsed(hist.path)

\* C7, amended: that holds in a Windows build; in any other build the key is
\* stored as given, a lookup of it finds its one row, and the upsert does not
\* change whether any other key is found.
C7_PathNormalization ==
    hist.op = "add_track" =>
        /\ windows => Collapsed(hist.path)
        /\ ~windows =>
            /\ get_rowid(Tracks, hist.path) > 0
            /\ Cardinality({r \in Tracks : r.File = hist.path}) = 1
            /\ \A k \in KeyPool \ {hist.path} :
                get_rowid(Tracks, k) > 0 <=> get_rowid(hist.before, k) > 0

C7_Witness ==
    /\ windows
    /\ hist.op = "add_track"
    /\ hist.path = PlainAw
    /\ \E r \in hist.before : r.File = PlainA
    /\ Cardinality(Tracks) = 1

\* The key a path is stored under
StoredKey(path) == IF windows THEN Replace(path, BACK, FWD) ELSE path

\* C8: at most one row per key; an upsert of an absent key adds one row, an
\* upsert of a present key rewrites that row in place and keeps the count,
\* and repeating an upsert changes nothing.
C8_Upsert ==
    /\ \A r1, r2 \in Tracks : (r1.File = r2.File \/ r1.rowid = r2.rowid) => r1 = r2
    /\ hist.op = "add_track" =>
        LET key == StoredKey(hist.path)
            old == {r \in hist.before : r.File = key}
            new == {r \in Tracks : r.File = key}
        IN  /\ \A r \in new : r.meta = hist.meta /\ r.analysis = hist.analysis
            /\ Cardinality(new) = 1
            /\ Tracks \ new = hist.before \ old
            /\ old = {} => Cardinality(Tracks) = Cardinality(hist.before) + 1
            /\ old # {} =>
                /\ Cardinality(Tracks) = Cardinality(hist.before)
                /\ {r.rowid : r \in new} = {r.rowid : r \in old}
            /\ add_track(Tracks, hist.path, hist.meta, hist.analysis) = Tracks

C8_Witness ==
    /\ hist.op = "add_track"
    /\ \E r \in hist.before :
        /\ r.File = StoredKey(hist.path)
        /\ r.meta # hist.meta
        /\ r \notin Tracks
    /\ Cardinality(Tracks) = 2

-----------------------------------------------------------------------------
(* cue.rs *)

LAST_TRACK_DURATION == 60 * 60 * 24

\* format!("{}", n) for a track number
Itoa(n) == <<"1", "2", "3", "4", "5", "6", "7", "8", "9">>[n]

\* Path::extension: the last token of a file's path
Extension(path) == path[Len(path)]

\* PathBuf::set_extension: ext is the token sequence that replaces the extension
SetExtension(path, ext) == SubSeq(path, 1, Len(path) - 1) \o ext

\* path.set_extension(""); path.file_name()
BaseName(path) == path[Len(path) - 1]

\* The key of the n-th track cue::parse returns for a container
cue_track_path(audio_path, n) ==
    SetExtension(audio_path, <<Extension(audio_path), CUE_MARKER, Itoa(n)>>)

\* One CueTrack as the loop over file.tracks builds it (duration still the sentinel)
make_ctrack(audio_path, cue, track, n) ==
    LET album == cue.title
        album_artist == cue.performer
    IN  [audio_path |-> audio_path,
         track_path |-> cue_track_path(audio_path, n),
         title |-> track.title,
         artist |-> IF track.performer = "" /\ album_artist # ""
                    THEN album_artist ELSE track.performer,
         album_artist |-> album_artist,
         album |-> IF album = "" THEN BaseName(audio_path) ELSE album,
         genre |-> cue.genre,
         start |-> track.start,
         duration |-> LAST_TRACK_DURATION]

\* The loop over file.tracks numbering each track by its place in the sheet
RECURSIVE collect_tracks_by_place(_, _, _, _)
collect_tracks_by_place(audio_path, cue, tracks, resp) ==
    IF tracks = <<>> THEN resp
    ELSE LET track == Head(tracks)
             place == Len(cue.tracks) - Len(tracks) + 1
         IN  IF track.start >= 0
             THEN collect_tracks_by_place(audio_path, cue, Tail(tracks),
                      Append(resp, make_ctrack(audio_path, cue, track, place)))
             ELSE collect_tracks_by_place(audio_path, cue, Tail(tracks), resp)

\* The loop over file.tracks: a track with no index is passed over
RECURSIVE collect_tracks(_, _, _, _)
collect_tracks(audio_path, cue, tracks, resp) ==
    IF tracks = <<>> THEN resp
    ELSE LET track == Head(tracks)
         IN  IF track.start >= 0
             THEN collect_tracks(audio_path, cue, Tail(tracks),
                      Append(resp, make_ctrack(audio_path, cue, track, Len(resp) + 1)))
             ELSE collect_tracks(audio_path, cue, Tail(tracks), resp)

\* resp before the durations are computed
parse_resp(audio_path, cue) ==
    IF cue.ok /\ cue.nfiles = 1
    THEN collect_tracks(audio_path, cue, cue.tracks, <<>>)
    ELSE <<>>

\* Duration - Duration panics when the result would be negative
SubPanics(resp) == \E i \in 1..(Len(resp) - 1) : resp[i + 1].start < resp[i].start

\* The closing loop that leaves every duration as the sentinel
set_durations_none(resp) == resp

\* The closing loop, for i in 0..(resp.len()-1): every track but the last
\* gets next.start - start
set_durations(resp) ==
    [i \in 1..Len(resp) |->
        IF i < Len(resp)
        THEN [resp[i] EXCEPT !.duration = resp[i + 1].start - resp[i].start]
        ELSE resp[i]]

\* cue::parse: the outcomes a build can give.  With no track, resp.len()-1
\* overflows: a panic when the build checks overflow, otherwise the loop runs
\* over 0..usize::MAX doing nothing (it returns only if the loop is compiled away).
parse_outcomes(audio_path, cue) ==
    LET resp == parse_resp(audio_path, cue)
    IN  IF resp = <<>>
        THEN IF overflow_checks
             THEN {[outcome |-> "panicked", tracks |-> <<>>]}
             ELSE {[outcome |-> "no return", tracks |-> <<>>],
                   [outcome |-> "returned", tracks |-> <<>>]}
        ELSE IF SubPanics(resp)
             THEN {[outcome |-> "panicked", tracks |-> <<>>]}
             ELSE {[outcome |-> "returned", tracks |-> set_durations(resp)]}

-----------------------------------------------------------------------------
(* cue::parse applied to a sheet *)

\* Seconds at which a track's first index is; -1: the track has no index
StartPool == {-1, 0, 180, 420}

SheetTrack == [title : {"t"}, performer : {"", "tp"}, start : StartPool]

SheetPool ==
    {[ok |-> FALSE]} \cup
    [ok : {TRUE}, title : {"", "Album"}, performer : {"", "AA"}, genre : {"Rock"},
     nfiles : {1},
     tracks : UNION {[1..n -> SheetTrack] : n \in 0..MaxSheetTracks}] \cup
    [ok : {TRUE}, title : {"Album"}, performer : {""}, genre : {""},
     nfiles : {0, 2},
     tracks : {<<[title |-> "t", performer |-> "", start |-> 0]>>}]

InitCue ==
    /\ DbIdle
    /\ RunIdle
    /\ overflow_checks \in BOOLEAN
    /\ sheet \in SheetPool
    /\ cue_out = [outcome |-> "idle"]

CueParse ==
    /\ cue_out.outcome = "idle"
    /\ cue_out' \in parse_outcomes(Sheet, sheet)
    /\ UNCHANGED <<dbvars, overflow_checks, sheet, runvars>>

NextCue == CueParse

SpecCue == InitCue /\ [][NextCue]_vars

-----------------------------------------------------------------------------
(* Properties of cue::parse *)

\* The tracks of the sheet, when it is one cue::parse splits
SheetTracks == IF sheet.ok /\ sheet.nfiles = 1 THEN sheet.tracks ELSE <<>>

HasIndex(track) == track.start >= 0

\* The tracks of the sheet that have an index, in sheet order
IndexedTracks == SelectSeq(SheetTracks, HasIndex)

StartsInOrder(tracks) ==
    \A i \in 1..(Len(tracks) - 1) : tracks[i].start <= tracks[i + 1].start

\* What C5 promises of the returned tracks for the sheet tracks `tracks`
DurationsOf(tracks) ==
    LET n == Len(tracks)
    IN  /\ cue_out.outcome = "returned"
        /\ Len(cue_out.tracks) = n
        /\ \A i \in 1..n : cue_out.tracks[i].start = tracks[i].start
        /\ \A i \in 1..(n - 1) :
            cue_out.tracks[i].duration = tracks[i + 1].start - tracks[i].start
        /\ cue_out.tracks[n].duration = 60 * 60 * 24

SheetRejected == ~sheet.ok \/ sheet.nfiles # 1

\* C13: for a sheet that fails to parse or names a number of files other
\* than one, cue::parse returns, and returns no track.
C13_CueErrorPolicy ==
    (cue_out.outcome # "idle" /\ SheetRejected) =>
        cue_out = [outcome |-> "returned", tracks |-> <<>>]

-----------------------------------------------------------------------------
(* analyse.rs: the scan *)

DONT_ANALYSE == ".notmusic"
VALID_EXTENSIONS == {".m4a", ".mp3", ".ogg", ".flac", ".opus", ".wv", ".dsf"}
CueExt == ".cue"

\* Byte order of the tokens: '.' < '/' < '\' < letters
TokenOrder ==
    <<".cue", ".flac", ".mp3", ".notmusic", ".txt", "/", "\\",
      "a", "b", "c", "d", "e", "f", "x">>
Rank(t) == CHOOSE i \in 1..Len(TokenOrder) : TokenOrder[i] = t

\* p < q as strings
StringLess(p, q) ==
    \E k \in 1..(Len(q)) :
        /\ k <= Len(p) + 1
        /\ \A j \in 1..(k - 1) : p[j] = q[j]
        /\ (k = Len(p) + 1 \/ (k <= Len(p) /\ Rank(p[k]) < Rank(q[k])))

\* Vec::sort / sort_by_key on a set of distinct paths
RECURSIVE SortPaths(_)
SortPaths(S) ==
    IF S = {} THEN <<>>
    ELSE LET m == CHOOSE x \in S : \A y \in S : x = y \/ StringLess(x, y)
         IN  <<m>> \o SortPaths(S \ {m})

SeqToSet(q) == {q[i] : i \in 1..Len(q)}

\* Path::join
Join(dir, name) == IF dir = <<>> THEN name ELSE dir \o <<FWD>> \o name

\* Whether a path lies below a directory
IsBelow(dir, p) ==
    IF dir = <<>> THEN TRUE
    ELSE /\ Len(p) > Len(dir) + 1
         /\ SubSeq(p, 1, Len(dir)) = dir
         /\ p[Len(dir) + 1] = FWD

\* The files of a root that lie below a directory
Below(root, dir) == {e[2] : e \in {x \in fs : x[1] = root /\ IsBelow(dir, x[2])}}

\* read_dir: the entries of a directory, each with Path::is_dir
DirEntry(dir, p) ==
    LET rest == IF dir = <<>> THEN p ELSE SubSeq(p, Len(dir) + 2, Len(p))
        s == Find(rest, FWD)
    IN  IF s > 0
        THEN [path |-> Join(dir, SubSeq(rest, 1, s - 1)), is_dir |-> TRUE]
        ELSE [path |-> Join(dir, rest), is_dir |-> FALSE]

read_dir(root, dir) == {DirEntry(dir, p) : p \in Below(root, dir)}

\* The orders in which the system may hand out the two entries of a directory
ListingOrders == {"forward", "backward"}

Reverse(q) == [i \in 1..Len(q) |-> q[Len(q) + 1 - i]]

\* path.read_dir()...collect(): the entries' paths in the order the system
\* lists them this time
collect(order, root, dir) ==
    LET asc == SortPaths({e.path : e \in read_dir(root, dir)})
    IN  IF order = "forward" THEN asc ELSE Reverse(asc)

\* get_file_list, had it walked the entries in the order they were listed
sort_by_key_none(items) == items

\* items.sort_by_key(|dir| dir.path())
sort_by_key(items) == SortPaths(SeqToSet(items))

IsDirEntry(root, dir, path) == [path |-> path, is_dir |-> TRUE] \in read_dir(root, dir)

\* Path::to_string_lossy of a path relative to the root: the target's separator
ToNative(path) == IF windows THEN Replace(path, FWD, BACK) ELSE path

\* The feature vector the Analyzer computes for a file
AnalysisOf(path) == "v1"

\* What the tag reader finds in a file, by the file's name: its tags, and
\* the feature vector cached in them ("none" when there is none)
tags_read(root, path) ==
    LET name == BaseName(path)
        tagged == CASE name = "b" -> [meta |-> MetaRock, analysis |-> "none"]
                    [] name = "e" -> [meta |-> MetaJazz, analysis |-> "v2"]
                    [] OTHER -> [meta |-> EmptyMeta, analysis |-> "none"]
    IN  IF <<root, path>> \in cached
        THEN [tagged EXCEPT !.analysis = AnalysisOf(path)]
        ELSE tagged

\* The cue sheet beside a container, by the container's name
sheet_of(path) ==
    [ok |-> TRUE, title |-> "Album", performer |-> "AA", genre |-> "Rock", nfiles |-> 1,
     tracks |-> <<[title |-> "t1", performer |-> "", start |-> 0],
                  [title |-> "t2", performer |-> "tp", start |-> 180]>>]

\* cue::parse as the scan sees it: the tracks, or <<>> with aborted set when
\* the call panics or does not return
cue_parse_aborts(path) ==
    LET resp == parse_resp(path, sheet_of(path))
    IN  resp = <<>> \/ SubPanics(resp)

cue_parse(path) == set_durations(parse_resp(path, sheet_of(path)))

CapReached(st) == cfg.max_num_files > 0 /\ st.file_count >= cfg.max_num_files

\* check_dir_entry for a file with a same-stem cue sheet, had it looked up
\* every track's key and queued the tracks that have no row
check_cue_entry_per_track(root, pb, st) ==
    LET absent == SelectSeq(cue_parse(pb),
                            LAMBDA t : get_rowid(st.db, ToNative(t.track_path)) <= 0)
    IN  IF absent # <<>>
        THEN [st EXCEPT
                !.cue_tracks = st.cue_tracks \o
                    [i \in 1..Len(absent) |-> [root |-> root, track |-> absent[i]]],
                !.file_count = st.file_count + 1]
        ELSE st

\* check_dir_entry: the key it looks up for a file with a same-stem cue sheet
cue_track_sname(pb) == ToNative(SetExtension(pb, <<Extension(pb), CUE_MARKER, "1">>))

\* check_dir_entry for a file with a same-stem cue sheet
check_cue_entry(root, pb, st) ==
    LET id == get_rowid(st.db, cue_track_sname(pb))
    IN  IF id <= 0
        THEN IF cfg.ffmpeg
             THEN IF cue_parse_aborts(pb)
                  THEN [st EXCEPT !.status = "aborted"]
                  ELSE [st EXCEPT
                          !.cue_tracks = st.cue_tracks \o
                              [i \in 1..Len(cue_parse(pb)) |->
                                  [root |-> root, track |-> cue_parse(pb)[i]]],
                          !.file_count = st.file_count + 1]
             ELSE [st EXCEPT
                     !.track_paths = Append(st.track_paths,
                          [root |-> root, path |-> SetExtension(pb, <<CueExt>>)]),
                     !.file_count = st.file_count + 1]
        ELSE st

\* check_dir_entry for a file with no cue sheet, had it queued every file
\* that has no row without reading its tags
check_plain_entry_no_tags(root, pb, st) ==
    IF get_rowid(st.db, ToNative(pb)) <= 0
    THEN [st EXCEPT
            !.track_paths = Append(st.track_paths, [root |-> root, path |-> pb]),
            !.file_count = st.file_count + 1]
    ELSE st

\* check_dir_entry for a file with no cue sheet, had it not asked the catalog
\* for the file's row
check_plain_entry_any_row(root, pb, st) ==
    [st EXCEPT
       !.track_paths = Append(st.track_paths, [root |-> root, path |-> pb]),
       !.file_count = st.file_count + 1]

\* check_dir_entry for a file with no cue sheet, had it stored a cached
\* vector in a dry run too
check_plain_entry_wet(root, pb, st) ==
    LET sname == ToNative(pb)
        id == get_rowid(st.db, sname)
        meta == tags_read(root, pb)
    IN  IF id <= 0
        THEN IF ~is_empty(meta.meta) /\ meta.analysis # "none"
             THEN [st EXCEPT
                     !.db = add_track(st.db, sname, meta.meta, meta.analysis),
                     !.writes = st.writes + 1,
                     !.tagged_file_count = st.tagged_file_count + 1]
             ELSE [st EXCEPT
                     !.track_paths = Append(st.track_paths, [root |-> root, path |-> pb]),
                     !.file_count = st.file_count + 1]
        ELSE st

\* check_dir_entry for a file with no cue sheet
check_plain_entry(root, pb, st) ==
    LET sname == ToNative(pb)
        id == get_rowid(st.db, sname)
        meta == tags_read(root, pb)
    IN  IF id <= 0
        THEN IF ~is_empty(meta.meta) /\ meta.analysis # "none"
             THEN [st EXCEPT
                     !.db = IF cfg.dry_run THEN st.db
                            ELSE add_track(st.db, sname, meta.meta, meta.analysis),
                     !.writes = IF cfg.dry_run THEN st.writes ELSE st.writes + 1,
                     !.tagged_file_count = st.tagged_file_count + 1]
             ELSE [st EXCEPT
                     !.track_paths = Append(st.track_paths, [root |-> root, path |-> pb]),
                     !.file_count = st.file_count + 1]
        ELSE st

RECURSIVE get_file_list(_, _, _, _)
RECURSIVE check_items(_, _, _, _)
RECURSIVE check_dir_entry(_, _, _, _)

\* check_dir_entry
check_dir_entry(order, root, entry, st) ==
    LET pb == entry.path
    IN  IF entry.is_dir
        THEN IF <<root, Join(pb, <<DONT_ANALYSE>>)>> \in fs
             THEN st
             ELSE IF cfg.max_num_files <= 0 \/ st.file_count < cfg.max_num_files
                  THEN get_file_list(order, root, pb, st)
                  ELSE st
        ELSE IF cfg.max_num_files <= 0 \/ st.file_count < cfg.max_num_files
             THEN IF Extension(pb) \in VALID_EXTENSIONS
                  THEN IF <<root, SetExtension(pb, <<CueExt>>)>> \in fs
                       THEN check_cue_entry(root, pb, st)
                       ELSE check_plain_entry(root, pb, st)
                  ELSE st
             ELSE st

\* The loop of get_file_list over the sorted entries, with its break
check_items(order, root, items, st) ==
    IF items = <<>> \/ st.status # "ok" THEN st
    ELSE LET entry == Head(items)
             st2 == check_dir_entry(order, root, entry, st)
         IN  IF CapReached(st2) THEN st2
             ELSE check_items(order, root, Tail(items), st2)

\* get_file_list: path.read_dir().unwrap() panics on a directory that cannot
\* be read
get_file_list(order, root, dir, st) ==
    LET items == sort_by_key(collect(order, root, dir))
    IN  IF <<root, dir>> \in env.locked
        THEN [st EXCEPT !.status = "aborted"]
        ELSE check_items(order, root,
                         [i \in 1..Len(items) |->
                             [path |-> items[i],
                              is_dir |-> IsDirEntry(root, dir, items[i])]],
                         st)

\* track_paths.sort()
sort_track_paths(tp) ==
    LET sorted == SortPaths({t.path : t \in SeqToSet(tp)})
    IN  [i \in 1..Len(sorted) |->
            CHOOSE t \in SeqToSet(tp) : t.path = sorted[i]]

\* analyse_files: the scan of one root, from get_file_list to track_paths.sort()
scan_root(order, root, db) ==
    LET st == get_file_list(order, root, <<>>,
                  [track_paths |-> <<>>, cue_tracks |-> <<>>, file_count |-> 0,
                   tagged_file_count |-> 0, status |-> "ok", db |-> db, writes |-> 0])
    IN  [st EXCEPT !.track_paths = sort_track_paths(st.track_paths)]

-----------------------------------------------------------------------------
(* analyse.rs: the Analyzer's outcomes and the reducers *)

\* The duration the decoder measures for a whole container
ContainerDuration == 10 * 60

\* The tags the Analyzer reports for a file (bliss's own, or ffprobe's)
analyzer_tags(path) ==
    IF BaseName(path) = "f"
    THEN [MetaJazz EXCEPT !.duration = ContainerDuration]
    ELSE [EmptyMeta EXCEPT !.duration = ContainerDuration]

\* The container a cue file names
AudioOf(root, cue_path) ==
    CHOOSE a \in {e[2] : e \in {x \in fs : x[1] = root}} :
        /\ Extension(a) \in VALID_EXTENSIONS
        /\ SetExtension(a, <<CueExt>>) = cue_path

\* The outcomes the Analyzer yields for one entry of track_paths: one for a
\* plain file, one per sheet track for a cue file
outcomes_of_path(tp) ==
    IF Extension(tp.path) = CueExt
    THEN LET audio == AudioOf(tp.root, tp.path)
             tracks == cue_parse(audio)
         IN  {[kind |-> "cue", root |-> tp.root, path |-> tp.path,
               ok |-> tracks[k].track_path \notin bad,
               track_number |-> k, audio_file_path |-> audio,
               meta |-> [title |-> tracks[k].title, artist |-> tracks[k].artist,
                         album_artist |-> tracks[k].album_artist, album |-> tracks[k].album,
                         genre |-> tracks[k].genre,
                         duration |-> IF k < Len(tracks) THEN tracks[k].duration
                                      ELSE ContainerDuration - tracks[k].start],
               analysis |-> AnalysisOf(audio)] : k \in 1..Len(tracks)}
    ELSE {[kind |-> "plain", root |-> tp.root, path |-> tp.path,
           ok |-> tp.path \notin bad,
           meta |-> analyzer_tags(tp.path), analysis |-> AnalysisOf(tp.path)]}

\* analyze_paths_with_options(track_paths): every outcome it will yield
outcomes_of_paths(track_paths) ==
    UNION {outcomes_of_path(track_paths[i]) : i \in 1..Len(track_paths)}

\* What a dispatcher thread sends for one cue track: the track, and the
\* decoder's song or its error.  The song's duration is what the decoder
\* measured, in whole seconds (as_secs): the rest of the container for an
\* excerpt of the sentinel's length, else the excerpt less its last,
\* partial second
song_from_path(ct) ==
    [kind |-> "cue_track", root |-> ct.root, track |-> ct.track,
     ok |-> ct.track.track_path \notin bad,
     duration |-> IF ct.track.duration >= LAST_TRACK_DURATION
                  THEN ContainerDuration - ct.track.start
                  ELSE ct.track.duration - 1,
     analysis |-> AnalysisOf(ct.track.audio_path)]

\* analyze_cue_streaming(cue_tracks): every outcome it will yield
outcomes_of_cue_tracks(cue_tracks) ==
    {song_from_path(cue_tracks[i]) : i \in 1..Len(cue_tracks)}

\* The reducer's view of the world: its locals, the table, the files whose
\* tags carry a feature vector it wrote, the modification times, and the
\* number of write statements it ran on the table
\*   R = [red, db, cached, mtime, writes]

\* db.add_track from a reducer
reducer_add(R, key, meta, analysis) ==
    [R EXCEPT !.db = add_track(R.db, key, meta, analysis),
              !.writes = R.writes + 1]

\* tags::write_analysis: the vector goes into the file's tags, and the file's
\* modification time moves on unless it is to be preserved
write_analysis(root, path, R) ==
    [R EXCEPT !.cached = R.cached \cup {<<root, path>>},
              !.mtime = IF cfg.preserve_mod_times THEN R.mtime
                        ELSE [R.mtime EXCEPT ![<<root, path>>] = R.mtime[<<root, path>>] + 1]]

\* tags::read alone, with no second source for a file without tags
plain_meta_no_fallback(item) == tags_read(item.root, item.path).meta

\* tags::read, then the Analyzer's fields when the file's tags are empty
plain_meta(item) ==
    IF is_empty(tags_read(item.root, item.path).meta)
    THEN item.meta
    ELSE tags_read(item.root, item.path).meta

\* The Ok arm for a plain file (both builds)
reduce_plain_ok(item, R) ==
    LET sname == ToNative(item.path)
        meta == plain_meta(item)
        R1 == IF is_empty(meta)
              THEN [R EXCEPT !.red.tag_error = Append(R.red.tag_error, sname)]
              ELSE R
        R2 == IF cfg.write_tags THEN write_analysis(item.root, item.path, R1) ELSE R1
    IN  reducer_add(R2, sname, meta, item.analysis)

\* The Ok arm for a track of a cue file, analyse_new_files without ffmpeg:
\* the first track of a parent counts the parent
reduce_cue_ok(item, R) ==
    LET cpath == <<item.root, item.path>>
        R1 == IF cpath \in R.red.reported_cue
              THEN R
              ELSE [R EXCEPT !.red.analysed = R.red.analysed + 1,
                             !.red.reported_cue = R.red.reported_cue \cup {cpath}]
        db_path == ToNative(item.audio_file_path) \o <<CUE_MARKER, Itoa(item.track_number)>>
    IN  reducer_add(R1, db_path, item.meta, item.analysis)

\* One pass of the loop body of analyse_new_files built without ffmpeg
reduce_file(item, R) ==
    LET sname == ToNative(item.path)
        inc_progress == ~(item.ok /\ item.kind = "cue"
                           /\ <<item.root, item.path>> \in R.red.reported_cue)
        R1 == IF item.ok
              THEN LET R0 == IF item.kind = "cue" THEN reduce_cue_ok(item, R)
                                                  ELSE reduce_plain_ok(item, R)
                   IN  [R0 EXCEPT !.red.analysed = R0.red.analysed + 1]
              ELSE [R EXCEPT !.red.failed = Append(R.red.failed, sname)]
    IN  IF inc_progress
        THEN [R1 EXCEPT !.red.progress = R1.red.progress + 1]
        ELSE R1

\* One pass of the loop body of analyse_new_files built with ffmpeg
reduce_file_ffmpeg(item, R) ==
    LET sname == ToNative(item.path)
        R1 == IF item.ok
              THEN LET R0 == reduce_plain_ok(item, R)
                   IN  [R0 EXCEPT !.red.analysed = R0.red.analysed + 1]
              ELSE [R EXCEPT !.red.failed = Append(R.red.failed, sname)]
    IN  [R1 EXCEPT !.red.progress = R1.red.progress + 1]

\* The duration stored for a cue track, had it always been the decoder's
cue_duration_decoded(track, song_duration) == song_duration

\* duration: if track.duration>=last_track_duration { song.duration } else
\* { track.duration }
cue_duration(track, song_duration) ==
    IF track.duration >= LAST_TRACK_DURATION THEN song_duration ELSE track.duration

\* One pass of the loop body of analyse_new_cue_tracks
reduce_cue_track(item, R) ==
    LET sname == ToNative(item.track.track_path)
        meta == [title |-> item.track.title, artist |-> item.track.artist,
                 album_artist |-> item.track.album_artist, album |-> item.track.album,
                 genre |-> item.track.genre,
                 duration |-> cue_duration(item.track, item.duration)]
        R1 == IF item.ok
              THEN LET R0 == reducer_add(R, sname, meta, item.analysis)
                   IN  [R0 EXCEPT !.red.analysed = R0.red.analysed + 1]
              ELSE [R EXCEPT !.red.failed = Append(R.red.failed, sname)]
    IN  [R1 EXCEPT !.red.progress = R1.red.progress + 1]

\* A loop body whose Err arm does nothing
reduce_drop_failed(item, R) ==
    IF item.ok
    THEN IF item.kind = "cue_track" THEN reduce_cue_track(item, R)
         ELSE IF cfg.ffmpeg THEN reduce_file_ffmpeg(item, R)
         ELSE reduce_file(item, R)
    ELSE R

\* The loop body of whichever reducer is running
reduce(item, R) ==
    IF item.kind = "cue_track" THEN reduce_cue_track(item, R)
    ELSE IF cfg.ffmpeg THEN reduce_file_ffmpeg(item, R)
    ELSE reduce_file(item, R)

\* terminate_analysis(): TERMINATE_ANALYSIS_FLAG is a static mut written by
\* the signal handler's thread with no synchronisation, so a read may still
\* give the value from before the write
terminate_analysis == IF TERMINATE_ANALYSIS_FLAG THEN {TRUE, FALSE} ELSE {FALSE}

-----------------------------------------------------------------------------
(* analyse_files, run after run *)

MaxRuns == 2
MaxTouch == 1

CfgDefault ==
    [ffmpeg |-> FALSE, dry_run |-> FALSE, keep_old |-> FALSE, max_num_files |-> 0,
     max_threads |-> 0, write_tags |-> FALSE, preserve_mod_times |-> FALSE,
     ignore |-> [exists |-> FALSE, lines |-> <<>>]]
CfgFfmpeg == [CfgDefault EXCEPT !.ffmpeg = TRUE]
CfgDryRun == [CfgDefault EXCEPT !.dry_run = TRUE]
CfgCapped == [CfgDefault EXCEPT !.max_num_files = 1]
CfgTags ==
    [CfgDefault EXCEPT !.write_tags = TRUE,
                       !.ignore = [exists |-> TRUE, lines |-> <<LineA>>]]
CfgKeep ==
    [CfgDefault EXCEPT !.ffmpeg = TRUE, !.keep_old = TRUE, !.write_tags = TRUE,
                       !.preserve_mod_times = TRUE,
                       !.ignore = [exists |-> TRUE, lines |-> <<LineSheet>>]]

SheetCue == <<"c", ".cue">>
PlainE == <<"e", ".mp3">>
PlainF == <<"f", ".mp3">>
SkippedF == <<"x", "/", "f", ".mp3">>
SkipMark == <<"x", "/", ".notmusic">>

\* Music folders: plain files; a container with its cue sheet; a file with a
\* cached vector, a folder marked .notmusic, a file with no tags
FsPlain == {<<"R1", PlainA>>, <<"R1", PlainD>>}
FsCue == {<<"R1", Sheet>>, <<"R1", SheetCue>>, <<"R2", PlainD>>, <<"R2", PlainA>>}
FsTagged ==
    {<<"R1", PlainE>>, <<"R1", SkipMark>>, <<"R1", SkippedF>>, <<"R2", PlainD>>,
     <<"R2", PlainF>>}

\* A root that holds the marker file itself
FsMarkedRoot == {<<"R1", <<DONT_ANALYSE>>>>, <<"R1", PlainD>>, <<"R2", PlainA>>}

\* The runs made: a build and command line, the music folders, and the
\* inputs the Analyzer fails on
\* What the system refuses: nothing; the catalog file; a music folder that is
\* not there; a sub-folder without read permission; a music folder without it
EnvOk == [db_ok |-> TRUE, bad_roots |-> {}, locked |-> {}]
EnvNoCatalog == [EnvOk EXCEPT !.db_ok = FALSE]
EnvNoRoot == [EnvOk EXCEPT !.bad_roots = {"R2"}]
EnvLockedDir == [EnvOk EXCEPT !.locked = {<<"R1", <<"a">>>>}]
EnvLockedRoot == [EnvOk EXCEPT !.locked = {<<"R2", <<>>>>}]

ScenarioPool ==
    { [cfg |-> CfgDefault, fs |-> FsPlain, bad |-> {PlainD}, env |-> EnvOk],
      [cfg |-> CfgDefault, fs |-> FsCue, bad |-> {}, env |-> EnvOk],
      [cfg |-> CfgDefault, fs |-> FsCue, bad |-> {SheetT1}, env |-> EnvOk],
      [cfg |-> CfgFfmpeg, fs |-> FsCue, bad |-> {}, env |-> EnvOk],
      [cfg |-> CfgKeep, fs |-> FsCue, bad |-> {SheetT2, PlainA},
        env |-> EnvOk],
      [cfg |-> CfgDryRun, fs |-> FsPlain, bad |-> {}, env |-> EnvOk],
      [cfg |-> CfgCapped, fs |-> FsPlain, bad |-> {}, env |-> EnvOk],
      [cfg |-> CfgCapped, fs |-> FsCue, bad |-> {}, env |-> EnvOk],
      [cfg |-> CfgTags, fs |-> FsTagged, bad |-> {PlainD}, env |-> EnvOk],
      [cfg |-> CfgDefault, fs |-> FsTagged, bad |-> {}, env |-> EnvOk],
      [cfg |-> CfgDefault, fs |-> FsMarkedRoot, bad |-> {}, env |-> EnvOk],
      [cfg |-> CfgDefault, fs |-> FsPlain, bad |-> {}, env |-> EnvNoCatalog],
      [cfg |-> CfgDefault, fs |-> FsPlain, bad |-> {}, env |-> EnvNoRoot],
      [cfg |-> CfgDefault, fs |-> FsPlain, bad |-> {}, env |-> EnvLockedDir],
      [cfg |-> CfgDefault, fs |-> FsCue, bad |-> {}, env |-> EnvLockedRoot] }

InitRun ==
    /\ CueIdle
    /\ windows \in BOOLEAN
    /\ \E s \in ScenarioPool : cfg = s.cfg /\ fs = s.fs /\ bad = s.bad /\ env = s.env
    /\ Tracks = {}
    /\ nops = 0
    /\ hist = [op |-> "init"]
    /\ mtime = [f \in fs |-> 0]
    /\ cached = {}
    /\ run = 1
    /\ pc = "start"
    /\ root_i = 0
    /\ scan = EmptyScan
    /\ todo = {}
    /\ in_hand = [kind |-> "none"]
    /\ red = NewReducer
    /\ changes_made = FALSE
    /\ TERMINATE_ANALYSIS_FLAG = FALSE
    /\ obs = NewObs
    /\ DispatchIdle

RunFrame ==
    UNCHANGED <<windows, nops, hist, cuevars, cfg, bad, env, num_cpus, handles, chan>>

\* for path in mpaths: on to the next root, or out of the loop
next_pc == IF root_i < Len(mpaths) THEN "scan" ELSE "close"
next_root == IF root_i < Len(mpaths) THEN root_i + 1 ELSE root_i

\* main: a music folder that does not exist or is not a directory is
\* process::exit(-1)
roots_rejected == env.bad_roots # {}

\* Db::new: Connection::open failing is process::exit(-1)
open_rejected == ~env.db_ok

\* main's checks of the music folders, then analyse_files: Db::new, the Ctrl-C
\* handler, db.init(), and db.remove_old unless keep_old
Start ==
    /\ pc = "start"
    /\ IF roots_rejected \/ open_rejected
       THEN /\ pc' = "exit_failure"
            /\ UNCHANGED <<Tracks, obs, root_i, changes_made>>
       ELSE /\ Tracks' = IF cfg.keep_old THEN Tracks
                                         ELSE remove_old(Tracks, mpaths, cfg.dry_run)
            /\ obs' = [obs EXCEPT !.writes = @ + Cardinality(Tracks) - Cardinality(Tracks')]
            /\ pc' = "scan"
            /\ root_i' = 1
            /\ changes_made' = FALSE
    /\ UNCHANGED <<fs, mtime, cached, run, scan, todo, in_hand, red,
                   TERMINATE_ANALYSIS_FLAG>>
    /\ RunFrame

\* get_file_list over one root, track_paths.sort(), and the counts logged
ScanRoot ==
    /\ pc = "scan"
    /\ \E order \in ListingOrders :
          LET st == scan_root(order, mpaths[root_i], Tracks)
          IN  /\ scan' = [st EXCEPT !.db = {}]
              /\ Tracks' = st.db
              /\ obs' = [obs EXCEPT !.writes = @ + st.writes,
                                    !.discovered = @ + st.file_count]
              /\ pc' = IF st.status = "ok" THEN "dispatch" ELSE "aborted"
    /\ UNCHANGED <<fs, mtime, cached, run, root_i, todo, in_hand, red, changes_made,
                   TERMINATE_ANALYSIS_FLAG>>
    /\ RunFrame

\* if !terminate_analysis(): the dry-run listing, or analyse_new_files up to
\* the first iteration of its loop, or "No new files to analyse"
Dispatch ==
    /\ pc = "dispatch"
    /\ \E t \in terminate_analysis :
          IF t \/ cfg.dry_run
          THEN /\ pc' = next_pc
               /\ root_i' = next_root
               /\ UNCHANGED <<todo, red>>
          ELSE IF scan.track_paths # <<>>
          THEN /\ pc' = "files"
               /\ todo' = outcomes_of_paths(scan.track_paths)
               /\ red' = NewReducer
               /\ UNCHANGED root_i
          ELSE /\ pc' = "cues"
               /\ UNCHANGED <<todo, red, root_i>>
    /\ UNCHANGED <<fs, Tracks, mtime, cached, run, scan, in_hand, changes_made,
                   TERMINATE_ANALYSIS_FLAG, obs>>
    /\ RunFrame

InReducer == pc \in {"files", "cue_tracks"}

\* The reducer takes the next (identity, outcome) pair: the pairs come in
\* the order the Analyzer's workers finish
Recv ==
    /\ InReducer
    /\ in_hand.kind = "none"
    /\ \E it \in todo :
          /\ in_hand' = [kind |-> "item", item |-> it, reduced |-> FALSE]
          /\ todo' = todo \ {it}
    /\ UNCHANGED <<fs, Tracks, mtime, cached, run, pc, root_i, scan, red, changes_made,
                   TERMINATE_ANALYSIS_FLAG, obs>>
    /\ RunFrame

\* The loop body up to the poll: the match on the outcome, and the progress bar
Reduce ==
    /\ InReducer
    /\ in_hand.kind = "item"
    /\ ~in_hand.reduced
    /\ LET R == reduce(in_hand.item,
                       [red |-> red, db |-> Tracks, cached |-> cached, mtime |-> mtime,
                        writes |-> 0])
       IN  /\ red' = R.red
           /\ Tracks' = R.db
           /\ cached' = R.cached
           /\ mtime' = R.mtime
           /\ obs' = [obs EXCEPT
                        !.writes = @ + R.writes,
                        !.failures = IF in_hand.item.kind = "plain" /\ ~in_hand.item.ok
                                     THEN @ \cup {[run |-> run, root |-> in_hand.item.root,
                                                   path |-> in_hand.item.path,
                                                   mtime |-> mtime[<<in_hand.item.root,
                                                                     in_hand.item.path>>]]}
                                     ELSE @]
    /\ in_hand' = [in_hand EXCEPT !.reduced = TRUE]
    /\ UNCHANGED <<fs, run, pc, root_i, scan, todo, changes_made,
                   TERMINATE_ANALYSIS_FLAG>>
    /\ RunFrame

\* Where in the loop body the reducer looks at the flag: before the body
poll_point_early(h) == TRUE

\* Where in the loop body the reducer looks at the flag: after the body
poll_point(h) == h.reduced

\* Where analyse_files goes when a reducer returns
after_reducer == IF pc = "files" THEN "cues" ELSE next_pc
after_reducer_root == IF pc = "files" THEN root_i ELSE next_root

\* if terminate_analysis() { break }, and on a break the rest of the
\* function: the log lines, Ok(()), and changes_made = true in the caller
Poll ==
    /\ InReducer
    /\ in_hand.kind = "item"
    /\ poll_point(in_hand)
    /\ \E t \in terminate_analysis :
          IF t
          THEN /\ pc' = after_reducer
               /\ root_i' = after_reducer_root
               /\ todo' = {}
               /\ changes_made' = TRUE
               /\ obs' = [obs EXCEPT !.handled = @ \cup {in_hand.item},
                                     !.loop = "broken"]
          ELSE /\ obs' = [obs EXCEPT !.handled = @ \cup {in_hand.item}]
               /\ UNCHANGED <<pc, root_i, todo, changes_made>>
    /\ in_hand' = [kind |-> "none"]
    /\ UNCHANGED <<fs, Tracks, mtime, cached, run, scan, red, TERMINATE_ANALYSIS_FLAG>>
    /\ RunFrame

\* The loop ends with the last outcome; then the rest of the function and
\* changes_made = true in the caller
LoopEnd ==
    /\ InReducer
    /\ in_hand.kind = "none"
    /\ todo = {}
    /\ pc' = after_reducer
    /\ root_i' = after_reducer_root
    /\ changes_made' = TRUE
    /\ obs' = [obs EXCEPT !.loop = IF pc = "files" THEN "files done" ELSE "cues done"]
    /\ UNCHANGED <<fs, Tracks, mtime, cached, run, scan, todo, in_hand, red,
                   TERMINATE_ANALYSIS_FLAG>>
    /\ RunFrame

\* With ffmpeg: if !cue_tracks.is_empty() && !terminate_analysis(), then
\* analyse_new_cue_tracks up to the first iteration of its loop
StartCues ==
    /\ pc = "cues"
    /\ IF cfg.ffmpeg /\ scan.cue_tracks # <<>>
       THEN \E t \in terminate_analysis :
               IF t
               THEN /\ pc' = next_pc
                    /\ root_i' = next_root
                    /\ UNCHANGED <<todo, red>>
               ELSE /\ pc' = "cue_tracks"
                    /\ todo' = outcomes_of_cue_tracks(scan.cue_tracks)
                    /\ red' = NewReducer
                    /\ UNCHANGED root_i
       ELSE /\ pc' = next_pc
            /\ root_i' = next_root
            /\ UNCHANGED <<todo, red>>
    /\ UNCHANGED <<fs, Tracks, mtime, cached, run, scan, in_hand, changes_made,
                   TERMINATE_ANALYSIS_FLAG, obs>>
    /\ RunFrame

\* db.close(), and update_ignore when something was analysed and there is
\* an ignore file; the process then ends
Close ==
    /\ pc = "close"
    /\ IF changes_made /\ cfg.ignore.exists
       THEN /\ Tracks' = update_ignore(Tracks, cfg.ignore.lines)
            /\ obs' = [obs EXCEPT !.writes = @ + 1]
       ELSE UNCHANGED <<Tracks, obs>>
    /\ pc' = "done"
    /\ scan' = EmptyScan
    /\ red' = NewReducer
    /\ UNCHANGED <<fs, mtime, cached, run, root_i, todo, in_hand, changes_made,
                   TERMINATE_ANALYSIS_FLAG>>
    /\ RunFrame

\* handle_ctrl_c, on the signal handler's thread
CtrlC ==
    /\ pc \in {"scan", "dispatch", "files", "cues", "cue_tracks", "close"}
    /\ ~TERMINATE_ANALYSIS_FLAG
    /\ TERMINATE_ANALYSIS_FLAG' = TRUE
    /\ obs' = [obs EXCEPT !.cancelled = TRUE]
    /\ UNCHANGED <<fs, Tracks, mtime, cached, run, pc, root_i, scan, todo, in_hand, red,
                   changes_made>>
    /\ RunFrame

\* Between runs somebody rewrites a file
Touch ==
    /\ pc = "done"
    /\ run < MaxRuns
    /\ ~obs.env_changed
    /\ \E f \in fs :
          /\ mtime[f] < MaxTouch
          /\ mtime' = [mtime EXCEPT ![f] = @ + 1]
    /\ obs' = [obs EXCEPT !.env_changed = TRUE]
    /\ UNCHANGED <<fs, Tracks, cached, run, pc, root_i, scan, todo, in_hand, red,
                   changes_made, TERMINATE_ANALYSIS_FLAG>>
    /\ RunFrame

\* Between runs somebody deletes a file
Unlink ==
    /\ pc = "done"
    /\ run < MaxRuns
    /\ ~obs.env_changed
    /\ \E f \in fs :
          /\ fs' = fs \ {f}
          /\ mtime' = [g \in fs \ {f} |-> mtime[g]]
          /\ cached' = cached \ {f}
    /\ obs' = [obs EXCEPT !.env_changed = TRUE]
    /\ UNCHANGED <<Tracks, run, pc, root_i, scan, todo, in_hand, red,
                   changes_made, TERMINATE_ANALYSIS_FLAG>>
    /\ RunFrame

\* The program is started again, with the same command line
NextRun ==
    /\ pc = "done"
    /\ run < MaxRuns
    /\ run' = run + 1
    /\ pc' = "start"
    /\ root_i' = 0
    /\ changes_made' = FALSE
    /\ TERMINATE_ANALYSIS_FLAG' = FALSE
    /\ obs' = [NewObs EXCEPT
                 !.failures = obs.failures,
                 !.prev = [valid |-> TRUE, cancelled |-> obs.cancelled,
                           env_changed |-> obs.env_changed]]
    /\ UNCHANGED <<fs, Tracks, mtime, cached, scan, todo, in_hand, red>>
    /\ RunFrame

NextRunSpec ==
    \/ Start
    \/ ScanRoot
    \/ Dispatch
    \/ Recv
    \/ Reduce
    \/ Poll
    \/ LoopEnd
    \/ StartCues
    \/ Close
    \/ CtrlC
    \/ Touch
    \/ Unlink
    \/ NextRun

SpecRun == InitRun /\ [][NextRunSpec]_vars

-----------------------------------------------------------------------------
(* analyze_cue_streaming and analyse_new_cue_tracks, thread by thread *)

MaxItems == 3
MaxCpus == 3

\* A sheet of n tracks, three minutes each
LongSheet(n) ==
    [ok |-> TRUE, title |-> "Album", performer |-> "AA", genre |-> "Rock", nfiles |-> 1,
     tracks |-> [i \in 1..n |-> [title |-> "t", performer |-> "", start |-> 180 * (i - 1)]]]

\* The cue_tracks analyse_new_cue_tracks is called with
CueTracksOf(n) ==
    LET resp == set_durations(parse_resp(Sheet, LongSheet(n)))
    IN  [i \in 1..n |-> [root |-> "R1", track |-> resp[i]]]

\* let mut chunk_length = tracks.len() / num_cpus, and its two adjustments
chunk_length(len, cpus) ==
    IF len \div cpus = 0 THEN len
    ELSE IF len \div cpus = 1 /\ len > cpus THEN 2
    ELSE len \div cpus

\* tracks.chunks(chunk_length), had each chunk after the first begun with
\* the last track of the chunk before it
chunks_overlapping(tracks, size) ==
    [k \in 1..((Len(tracks) + size - 1) \div size) |->
        SubSeq(tracks, IF k = 1 THEN 1 ELSE (k - 1) * size,
               IF k * size < Len(tracks) THEN k * size ELSE Len(tracks))]

\* tracks.chunks(chunk_length)
chunks(tracks, size) ==
    [k \in 1..((Len(tracks) + size - 1) \div size) |->
        SubSeq(tracks, (k - 1) * size + 1,
               IF k * size < Len(tracks) THEN k * size ELSE Len(tracks))]

\* analyse_new_cue_tracks up to the first iteration of its loop: the
\* channel, and one thread spawned per chunk
InitDispatch ==
    /\ DbIdle
    /\ CueIdle
    /\ cfg = CfgFfmpeg
    /\ bad \in {{}, {SheetT1}}
    /\ mtime = <<>>
    /\ cached = {}
    /\ env = EnvOk
    /\ run = 1
    /\ pc = "cue_tracks"
    /\ root_i = 1
    /\ todo = {}
    /\ in_hand = [kind |-> "none"]
    /\ red = NewReducer
    /\ changes_made = FALSE
    /\ TERMINATE_ANALYSIS_FLAG = FALSE
    /\ obs = NewObs
    /\ num_cpus \in 1..MaxCpus
    /\ \E n \in 0..MaxItems :
          LET tracks == IF n = 0 THEN <<>> ELSE CueTracksOf(n)
              parts == IF n = 0 THEN <<>> ELSE chunks(tracks, chunk_length(n, num_cpus))
          IN  /\ scan = [EmptyScan EXCEPT !.cue_tracks = tracks]
              /\ handles = [w \in DOMAIN parts |->
                              [chunk |-> parts[w], at |-> "loop", sent |-> 0,
                               late |-> FALSE]]
    /\ chan = [queue |-> <<>>, rx |-> TRUE]

DispatchFrame == UNCHANGED <<windows, fs, nops, hist, cuevars, cfg, bad, env, run,
                             root_i, scan, todo, num_cpus>>

\* A thread takes the next cue track of its chunk and calls song_from_path
\* (late: it did so for a further track with the flag already set)
WorkerStart(w) ==
    /\ handles[w].at = "loop"
    /\ handles[w].chunk # <<>>
    /\ handles' = [handles EXCEPT ![w].at = "analysing",
                                  ![w].late = @ \/ (TERMINATE_ANALYSIS_FLAG
                                                     /\ handles[w].sent > 0)]
    /\ UNCHANGED <<Tracks, mtime, cached, pc, in_hand, red, changes_made,
                   TERMINATE_ANALYSIS_FLAG, obs, chan>>
    /\ DispatchFrame

\* The table after a thread that upserted its own result
thread_catalog_upsert(T, song) ==
    IF song.ok
    THEN add_track(T, ToNative(song.track.track_path), EmptyMeta, song.analysis)
    ELSE T

\* The table after a thread has handled a track: the closure moves only
\* tx_thread and owned_chunk, it has no Db and leaves the table alone
thread_catalog(T, song) == T

\* song_from_path returns and the thread sends: send fails once the
\* Receiver is dropped, and unwrap() then panics; after its last track the
\* thread ends and its Sender is dropped
WorkerSend(w) ==
    /\ handles[w].at = "analysing"
    /\ IF chan.rx
       THEN /\ chan' = [chan EXCEPT !.queue = Append(@, song_from_path(Head(handles[w].chunk)))]
            /\ handles' = [handles EXCEPT
                             ![w].chunk = Tail(@),
                             ![w].sent = @ + 1,
                             ![w].at = IF Len(handles[w].chunk) = 1 THEN "done" ELSE "loop"]
       ELSE /\ handles' = [handles EXCEPT ![w].at = "panicked"]
            /\ UNCHANGED chan
    /\ Tracks' = thread_catalog(Tracks, song_from_path(Head(handles[w].chunk)))
    /\ UNCHANGED <<mtime, cached, pc, in_hand, red, changes_made,
                   TERMINATE_ANALYSIS_FLAG, obs>>
    /\ DispatchFrame

\* for (track, result) in results: the next pair in the channel
ChanRecv ==
    /\ pc = "cue_tracks"
    /\ in_hand.kind = "none"
    /\ chan.queue # <<>>
    /\ in_hand' = [kind |-> "item", item |-> Head(chan.queue), reduced |-> FALSE]
    /\ chan' = [chan EXCEPT !.queue = Tail(@)]
    /\ UNCHANGED <<Tracks, mtime, cached, pc, red, changes_made,
                   TERMINATE_ANALYSIS_FLAG, obs, handles>>
    /\ DispatchFrame

\* The loop body up to the poll
ChanReduce ==
    /\ pc = "cue_tracks"
    /\ in_hand.kind = "item"
    /\ ~in_hand.reduced
    /\ LET R == reduce_cue_track(in_hand.item,
                       [red |-> red, db |-> Tracks, cached |-> cached, mtime |-> mtime,
                        writes |-> 0])
       IN  /\ red' = R.red
           /\ Tracks' = R.db
           /\ obs' = [obs EXCEPT !.writes = @ + R.writes]
    /\ in_hand' = [in_hand EXCEPT !.reduced = TRUE]
    /\ UNCHANGED <<mtime, cached, pc, changes_made, TERMINATE_ANALYSIS_FLAG, handles, chan>>
    /\ DispatchFrame

\* if terminate_analysis() { break }: on a break the function returns and
\* the Receiver is dropped with whatever is queued
ChanPoll ==
    /\ pc = "cue_tracks"
    /\ in_hand.kind = "item"
    /\ in_hand.reduced
    /\ \E t \in terminate_analysis :
          IF t
          THEN /\ pc' = "returned"
               /\ changes_made' = TRUE
               /\ chan' = [queue |-> <<>>, rx |-> FALSE]
               /\ obs' = [obs EXCEPT !.handled = @ \cup {in_hand.item}, !.loop = "broken"]
          ELSE /\ obs' = [obs EXCEPT !.handled = @ \cup {in_hand.item}]
               /\ UNCHANGED <<pc, changes_made, chan>>
    /\ in_hand' = [kind |-> "none"]
    /\ UNCHANGED <<Tracks, mtime, cached, red, TERMINATE_ANALYSIS_FLAG, handles>>
    /\ DispatchFrame

\* The Senders alive, had analyze_cue_streaming kept its own tx (0) as well
senders_with_tx(H) == {0} \cup {w \in DOMAIN H : H[w].at \notin {"done", "panicked"}}

\* The Senders alive: tx is dropped when analyze_cue_streaming returns, and
\* each thread's tx_thread when the thread ends
senders(H) == {w \in DOMAIN H : H[w].at \notin {"done", "panicked"}}

\* The iteration ends when the channel is empty and every Sender is gone
ChanEnd ==
    /\ pc = "cue_tracks"
    /\ in_hand.kind = "none"
    /\ chan.queue = <<>>
    /\ senders(handles) = {}
    /\ pc' = "returned"
    /\ changes_made' = TRUE
    /\ chan' = [queue |-> <<>>, rx |-> FALSE]
    /\ obs' = [obs EXCEPT !.loop = "cues done"]
    /\ UNCHANGED <<Tracks, mtime, cached, in_hand, red, TERMINATE_ANALYSIS_FLAG, handles>>
    /\ DispatchFrame

\* analyse_files goes on to its end and main returns: the threads still
\* running end with the process
ProcessExit ==
    /\ pc = "returned"
    /\ pc' = "exited"
    /\ handles' = [w \in DOMAIN handles |->
                      IF handles[w].at \in {"loop", "analysing"}
                      THEN [handles[w] EXCEPT !.at = "killed"]
                      ELSE handles[w]]
    /\ UNCHANGED <<Tracks, mtime, cached, in_hand, red, changes_made,
                   TERMINATE_ANALYSIS_FLAG, obs, chan>>
    /\ DispatchFrame

\* handle_ctrl_c while the cue tracks are analysed
DispatchCtrlC ==
    /\ pc = "cue_tracks"
    /\ ~TERMINATE_ANALYSIS_FLAG
    /\ TERMINATE_ANALYSIS_FLAG' = TRUE
    /\ obs' = [obs EXCEPT !.cancelled = TRUE]
    /\ UNCHANGED <<Tracks, mtime, cached, pc, in_hand, red, changes_made, handles, chan>>
    /\ DispatchFrame

NextDispatch ==
    \/ \E w \in DOMAIN handles : WorkerStart(w)
    \/ \E w \in DOMAIN handles : WorkerSend(w)
    \/ ChanRecv
    \/ ChanReduce
    \/ ChanPoll
    \/ ChanEnd
    \/ ProcessExit
    \/ DispatchCtrlC

SpecDispatch == InitDispatch /\ [][NextDispatch]_vars

\* Every song_from_path call returns and the thread goes on; the reducer's
\* thread is scheduled
FairDispatch ==
    /\ \A w \in 1..MaxItems : WF_vars(w \in DOMAIN handles /\ WorkerStart(w))
    /\ \A w \in 1..MaxItems : WF_vars(w \in DOMAIN handles /\ WorkerSend(w))
    /\ WF_vars(ChanRecv)
    /\ WF_vars(ChanReduce)
    /\ WF_vars(ChanPoll)
    /\ WF_vars(ChanEnd)

SpecDispatchFair == SpecDispatch /\ FairDispatch

\* C9: no dispatcher thread starts the Analyzer on a further track of its
\* chunk once the flag is set, and no thread ends by a panic or by being
\* killed with the process.
C9_CancelStopsDispatch ==
    \A w \in DOMAIN handles :
        /\ ~handles[w].late
        /\ handles[w].at \notin {"panicked", "killed"}

\* A step of the reducer's loop body, with every dispatcher thread standing still
ReducerStep ==
    /\ pc = "cue_tracks"
    /\ in_hand.kind = "item"
    /\ ~in_hand.reduced
    /\ in_hand' = [in_hand EXCEPT !.reduced = TRUE]
    /\ handles' = handles
    /\ chan' = chan

-----------------------------------------------------------------------------
(* Properties of the runs *)

\* The run before this one ended without Ctrl-C, and nothing outside the
\* program has changed a file since
RerunUnchanged == obs.prev.valid /\ ~obs.prev.cancelled /\ ~obs.prev.env_changed

\* C1: a run made again after a run that completed without cancellation,
\* with no filesystem change in between, executes no insert, update or
\* delete on the Tracks table.
C1_Idempotence == RerunUnchanged => obs.writes = 0

\* The plain files whose analysis failed in an earlier run and whose
\* modification time is still what it was then
StillFailed ==
    {f \in obs.failures :
        /\ f.run < run
        /\ <<f.root, f.path>> \in fs
        /\ mtime[<<f.root, f.path>>] = f.mtime}

\* C3: after a scan, no plain file whose analysis failed in an earlier run
\* at the modification time it still has is in the list queued for analysis.
C3_FailureMemo ==
    pc = "dispatch" =>
        \A f \in StillFailed :
            [root |-> f.root, path |-> f.path] \notin SeqToSet(scan.track_paths)

\* The outcomes of the reducer loop that has just run to its end
FilesJustDone == pc = "cues" /\ obs.loop = "files done"
CuesJustDone == pc \in {"scan", "close"} /\ obs.loop = "cues done"

\* All the outcomes are sub-tracks of one cue parent, all analysed successfully
OneParentAllOk(O) ==
    /\ O # {}
    /\ \A o \in O : o.kind = "cue" /\ o.ok
    /\ \A o1, o2 \in O : o1.root = o2.root /\ o1.path = o2.path

\* C4: when the N outcomes of one cue parent have all been reduced with
\* success, in whatever order, "analysed" is N and the once-per-parent
\* progress step has run once; the cue-track reducer counts N for N tracks.
C4_CueParentDedup ==
    /\ (FilesJustDone /\ OneParentAllOk(outcomes_of_paths(scan.track_paths))) =>
          /\ red.analysed = Cardinality(outcomes_of_paths(scan.track_paths))
          /\ red.progress = 1
    /\ (CuesJustDone /\ \A o \in outcomes_of_cue_tracks(scan.cue_tracks) : o.ok) =>
          red.analysed = Len(scan.cue_tracks)

\* The key a successful outcome is stored under
ExpectedKey(it) ==
    CASE it.kind = "plain" -> ToNative(it.path)
      [] it.kind = "cue" ->
            ToNative(it.audio_file_path) \o <<CUE_MARKER, Itoa(it.track_number)>>
      [] it.kind = "cue_track" -> ToNative(it.track.track_path)

HasRow(it) ==
    \E r \in Tracks : r.File = StoredKey(ExpectedKey(it)) /\ r.analysis = it.analysis

\* C10: every successful outcome the reducer is done with, the one in hand
\* when it breaks on the flag included, has its row in the table, from then
\* to the end of the run.
C10_CancelKeepsReduced == \A it \in obs.handled : it.ok => HasRow(it)

\* A run cancelled in a reducer has ended with rows that reducer wrote
C10_Witness ==
    /\ pc = "done"
    /\ obs.loop = "broken"
    /\ \E it \in obs.handled : it.ok /\ HasRow(it)

\* The name the reducer logs an outcome under
ItemName(it) ==
    IF it.kind = "cue_track" THEN ToNative(it.track.track_path) ELSE ToNative(it.path)

\* The reducer's loop body runs on an outcome that is an error
ReducesFailure ==
    /\ InReducer
    /\ in_hand.kind = "item"
    /\ ~in_hand.reduced
    /\ ~in_hand.item.ok
    /\ in_hand' = [in_hand EXCEPT !.reduced = TRUE]

\* C12: on an error outcome the reducer appends the item to the failed list,
\* leaves the Tracks table and the analysed count as they are, and stays in
\* its loop with the outcomes still to come; a loop that ran to its end has
\* handled every outcome of the list.
C12_FailureNotFatal ==
    /\ [][ReducesFailure =>
            /\ red'.failed = Append(red.failed, ItemName(in_hand.item))
            /\ red'.analysed = red.analysed
            /\ Tracks' = Tracks
            /\ todo' = todo
            /\ pc' = pc]_vars
    /\ [](FilesJustDone => outcomes_of_paths(scan.track_paths) \subseteq obs.handled)

\* A loop that met a failure has run to its end and analysed other items
C12_Witness ==
    /\ FilesJustDone
    /\ red.failed # <<>>
    /\ red.analysed > 0

-----------------------------------------------------------------------------
(* Properties of the scan, stated where analyse_files has just scanned a root *)

Scanned == pc = "dispatch"
ScannedRoot == mpaths[root_i]
FilesOf(root) == {e[2] : e \in {x \in fs : x[1] = root}}

\* The directories a path lies in, the root's own (<<>>) left out
DirsAbove(p) == {SubSeq(p, 1, k - 1) : k \in {j \in 1..Len(p) : p[j] = FWD}}

\* The path lies in a directory, below the root, that holds the marker file
InMarkedDir(root, p) ==
    \E d \in DirsAbove(p) : <<root, Join(d, <<DONT_ANALYSE>>)>> \in fs

\* The audio files of a root that have a same-stem cue sheet
Containers(root) ==
    {a \in FilesOf(root) :
        /\ Extension(a) \in VALID_EXTENSIONS
        /\ <<root, SetExtension(a, <<CueExt>>)>> \in fs}

\* What the scan queued for a container: its cue tracks, in order (with
\* ffmpeg), or its sheet once per entry of track_paths (without)
QueuedTracks(root, a) ==
    LET mine == SelectSeq(scan.cue_tracks,
                          LAMBDA c : c.root = root /\ c.track.audio_path = a)
    IN  [i \in 1..Len(mine) |-> mine[i].track]

QueuedSheets(root, a) ==
    SelectSeq(scan.track_paths,
              LAMBDA t : t = [root |-> root, path |-> SetExtension(a, <<CueExt>>)])

FirstTrackKnown(a) == get_rowid(Tracks, ToNative(cue_track_path(a, 1))) > 0

\* C14: after a scan, for every container with a cue sheet: the container
\* is not in the plain list; what is queued for it is nothing or the whole
\* sheet, never a part; nothing when the key of track 1 has a row; the whole
\* sheet when it has none and the scan reached the container.
C14_CueAtomic ==
    Scanned =>
        \A a \in Containers(ScannedRoot) :
            /\ [root |-> ScannedRoot, path |-> a] \notin SeqToSet(scan.track_paths)
            /\ QueuedTracks(ScannedRoot, a) \in {<<>>, cue_parse(a)}
            /\ Len(QueuedSheets(ScannedRoot, a)) <= 1
            /\ FirstTrackKnown(a) =>
                  /\ QueuedTracks(ScannedRoot, a) = <<>>
                  /\ QueuedSheets(ScannedRoot, a) = <<>>
            /\ (~FirstTrackKnown(a) /\ cfg.max_num_files = 0
                    /\ ~InMarkedDir(ScannedRoot, a)) =>
                  IF cfg.ffmpeg
                  THEN QueuedTracks(ScannedRoot, a) = cue_parse(a)
                  ELSE Len(QueuedSheets(ScannedRoot, a)) = 1

\* A sheet whose first track has a row and whose second has none is left alone
C14_Witness ==
    /\ Scanned
    /\ \E a \in Containers(ScannedRoot) :
          /\ FirstTrackKnown(a)
          /\ get_rowid(Tracks, ToNative(cue_track_path(a, 2))) <= 0
          /\ QueuedTracks(ScannedRoot, a) = <<>>
          /\ QueuedSheets(ScannedRoot, a) = <<>>

\* The path lies in a directory that holds the marker file, the root included
UnderSentinel(root, p) ==
    InMarkedDir(root, p) \/ <<root, <<DONT_ANALYSE>>>> \in fs

\* C15: after a scan, nothing queued for analysis lies in a directory that
\* holds .notmusic or below one, the root being such a directory included.
C15_SentinelSkipped ==
    Scanned =>
        /\ \A t \in SeqToSet(scan.track_paths) : ~UnderSentinel(t.root, t.path)
        /\ \A c \in SeqToSet(scan.cue_tracks) : ~UnderSentinel(c.root, c.track.audio_path)

\* C16: with a cap above 0, the items one run discovers as pending, added
\* up over the roots, are never more than the cap.
C16_GlobalCap == cfg.max_num_files > 0 => obs.discovered <= cfg.max_num_files

\* The step that scans a root
ScanStep == pc = "scan" /\ pc' # "scan"

\* The plain files of the root that have no row and whose tags carry both
\* metadata and a feature vector
TaggedUnseen(root) ==
    {p \in FilesOf(root) :
        /\ Extension(p) \in VALID_EXTENSIONS
        /\ <<root, SetExtension(p, <<CueExt>>)>> \notin fs
        /\ get_rowid(Tracks, ToNative(p)) <= 0
        /\ ~is_empty(tags_read(root, p).meta)
        /\ tags_read(root, p).analysis # "none"}

\* The row the scan inserts for such a file
TaggedRow(root, p, r) ==
    /\ r.File = StoredKey(ToNative(p))
    /\ r.meta = tags_read(root, p).meta
    /\ r.analysis = tags_read(root, p).analysis
    /\ r.Ignore = 0

\* C17 as stated: the scan of a root leaves the Tracks table as it was.
C17_Original == [][ScanStep => Tracks' = Tracks]_vars

\* C17: the scan of a root removes and rewrites no row; the only rows it
\* adds are for the unseen plain files whose tags carry metadata and a
\* cached feature vector; in a dry run it adds none, otherwise it adds one
\* for every such file it reaches.
C17_ScanWrites ==
    [][ScanStep =>
        /\ Tracks \subseteq Tracks'
        /\ \A r \in Tracks' \ Tracks :
              \E p \in TaggedUnseen(ScannedRoot) : TaggedRow(ScannedRoot, p, r)
        /\ cfg.dry_run => Tracks' = Tracks
        /\ \A p \in TaggedUnseen(ScannedRoot) :
              (~cfg.dry_run /\ cfg.max_num_files = 0 /\ ~InMarkedDir(ScannedRoot, p)) =>
                  \E r \in Tracks' \ Tracks : TaggedRow(ScannedRoot, p, r)]_vars

\* A scan has just inserted a row from a file's tags
C17_Witness ==
    /\ Scanned
    /\ ~cfg.dry_run
    /\ scan.tagged_file_count > 0
    /\ \E r \in Tracks : r.analysis = "v2"

-----------------------------------------------------------------------------
(* Properties of the run's failures *)

\* The catalog cannot be opened, or a music folder is missing or no directory
SetupFails == roots_rejected \/ open_rejected

\* C18: a setup failure (the catalog cannot be opened or created, a music
\* folder does not exist or is not a directory) ends the process with a
\* non-zero status before any prune, scan, dispatch or catalog write; once
\* work has begun, a directory that cannot be read does not end the run
C18_SetupFailures ==
    /\ (SetupFails /\ pc # "start") =>
          /\ pc = "exit_failure"
          /\ obs.writes = 0
          /\ obs.handled = {}
          /\ scan = EmptyScan
          /\ Tracks = {}
    /\ ~SetupFails => pc \notin {"exit_failure", "aborted"}

-----------------------------------------------------------------------------
(* The scan of one root, made twice over the same folders *)

MaxScans == 2

\* A catalog the program has left behind: one row per path, added in order
RECURSIVE catalog_with(_)
catalog_with(paths) ==
    IF paths = <<>> THEN {}
    ELSE add_track(catalog_with(SubSeq(paths, 1, Len(paths) - 1)),
                   ToNative(paths[Len(paths)]), EmptyMeta, AnalysisOf(paths[Len(paths)]))

\* The files that may have a row when the scan starts
ScanKnown == {PlainA, PlainD, PlainF, SheetT1}
ScanCatalogs == {catalog_with(SortPaths(K)) : K \in SUBSET ScanKnown}

\* A folder that also holds a file that is no audio file
FsNotes ==
    {<<"R1", <<"b", ".txt">>>>, <<"R1", PlainA>>, <<"R1", <<"a", "/", "d", ".mp3">>>>,
     <<"R2", PlainD>>}

InitScan ==
    /\ CueIdle
    /\ windows \in BOOLEAN
    /\ fs \in {FsPlain, FsCue, FsTagged, FsMarkedRoot, FsNotes}
    /\ cfg \in {CfgDefault, CfgFfmpeg, CfgCapped, CfgDryRun}
    /\ Tracks \in ScanCatalogs
    /\ nops = 0
    /\ hist = [op |-> "init"]
    /\ bad = {}
    /\ mtime = <<>>
    /\ cached = {}
    /\ env = EnvOk
    /\ run = 1
    /\ pc = "scan"
    /\ root_i \in 1..Len(mpaths)
    /\ scan = EmptyScan
    /\ todo = {}
    /\ in_hand = [kind |-> "none"]
    /\ red = NewReducer
    /\ changes_made = FALSE
    /\ TERMINATE_ANALYSIS_FLAG = FALSE
    /\ obs = NewObs
    /\ DispatchIdle

\* The same root is scanned again; what the scan before queued and wrote is
\* kept
ScanAgain ==
    /\ pc = "dispatch"
    /\ run < MaxScans
    /\ run' = run + 1
    /\ pc' = "scan"
    /\ obs' = [NewObs EXCEPT
                 !.prev = [valid |-> TRUE, scan |-> scan, writes |-> obs.writes]]
    /\ UNCHANGED <<windows, fs, Tracks, nops, hist, cuevars, cfg, bad, mtime, cached, env,
                   root_i, scan, todo, in_hand, red, changes_made,
                   TERMINATE_ANALYSIS_FLAG, num_cpus, handles, chan>>

NextScan ==
    \/ ScanRoot
    \/ ScanAgain

SpecScan == InitScan /\ [][NextScan]_vars

-----------------------------------------------------------------------------
(* Properties of the scanner's output *)

\* The paths of the pending list, in the list's order
PendingPaths(sc) == [i \in 1..Len(sc.track_paths) |-> sc.track_paths[i].path]

\* Ascending with no duplicates
StrictlyAscending(q) == \A i \in 1..(Len(q) - 1) : StringLess(q[i], q[i + 1])

\* The scan before this one started from the folders and the table this one
\* started from: it wrote no row
SameStateAsBefore == obs.prev.valid /\ obs.prev.writes = 0

KeyKnown(p) == get_rowid(Tracks, ToNative(p)) > 0

\* A plain file the scan may queue: a file of the root with a recognised
\* extension and no row for its key
UnseenAudio(root, p) ==
    /\ p \in FilesOf(root)
    /\ Extension(p) \in VALID_EXTENSIONS
    /\ ~KeyKnown(p)

\* A cue sheet the scan may queue in place of its container: the container
\* is a file of the root with a recognised extension, and the key of its
\* first track has no row
UnseenSheet(root, p) ==
    \E a \in Containers(root) :
        /\ p = SetExtension(a, <<CueExt>>)
        /\ ~FirstTrackKnown(a)

-----------------------------------------------------------------------------
(* analyze_cue_streaming: the chunks and the threads spawned *)

MaxPending == 7

\* The --threads values tried: none given, and two explicit ones
ThreadOptions == {0, 1, 2}

\* The pending cue tracks analyze_cue_streaming is called with
PendingOf(n) == IF n = 0 THEN <<>> ELSE CueTracksOf(n)

\* let mut chunk_length = ..., had it been the quotient rounded up
chunk_length_ceil(len, cpus) == (len + cpus - 1) \div cpus

\* tracks.chunks(chunk_length), for the tracks and the CPUs of this call
spawn_chunks == chunks(scan.cue_tracks, chunk_length(Len(scan.cue_tracks), num_cpus))

InitChunk ==
    /\ DbIdle
    /\ CueIdle
    /\ cfg \in {[CfgFfmpeg EXCEPT !.max_threads = t] : t \in ThreadOptions}
    /\ bad = {}
    /\ mtime = <<>>
    /\ cached = {}
    /\ env = EnvOk
    /\ run = 1
    /\ pc = "streaming"
    /\ root_i = 1
    /\ \E n \in 0..MaxPending : scan = [EmptyScan EXCEPT !.cue_tracks = PendingOf(n)]
    /\ todo = {}
    /\ in_hand = [kind |-> "none"]
    /\ red = NewReducer
    /\ changes_made = FALSE
    /\ TERMINATE_ANALYSIS_FLAG = FALSE
    /\ obs = NewObs
    /\ num_cpus \in 1..MaxCpus
    /\ handles = <<>>
    /\ chan = [queue |-> <<>>, rx |-> TRUE]

ChunkFrame ==
    UNCHANGED <<dbvars, cuevars, cfg, bad, mtime, cached, env, run, root_i, scan, todo,
                in_hand, red, changes_made, TERMINATE_ANALYSIS_FLAG, obs, num_cpus, chan>>

\* for chunk in tracks.chunks(chunk_length): thread::spawn, handles.push
Spawn ==
    /\ pc = "streaming"
    /\ scan.cue_tracks # <<>>
    /\ Len(handles) < Len(spawn_chunks)
    /\ handles' = Append(handles, [chunk |-> spawn_chunks[Len(handles) + 1],
                                   at |-> "loop", sent |-> 0, late |-> FALSE])
    /\ pc' = pc
    /\ ChunkFrame

\* return Ok(rx): at once when there are no tracks, else after the last spawn
StreamingReturn ==
    /\ pc = "streaming"
    /\ IF scan.cue_tracks = <<>> THEN TRUE ELSE Len(handles) = Len(spawn_chunks)
    /\ pc' = "cue_tracks"
    /\ handles' = handles
    /\ ChunkFrame

NextChunk ==
    \/ Spawn
    \/ StreamingReturn

SpecChunk == InitChunk /\ [][NextChunk]_vars

-----------------------------------------------------------------------------
(* Properties of the chunks *)

\* analyze_cue_streaming has returned the receiver
Streamed == pc = "cue_tracks" /\ chan.rx /\ in_hand.kind = "none" /\ red = NewReducer

RECURSIVE Concat(_)
Concat(qs) == IF qs = <<>> THEN <<>> ELSE Head(qs) \o Concat(Tail(qs))

\* The chunks the threads were given, in the order they were spawned
SpawnedChunks == [w \in 1..Len(handles) |-> handles[w].chunk]

\* The chunks are contiguous, in input order, disjoint, and cover the input
ChunksCover == Concat(SpawnedChunks) = scan.cue_tracks

\* ceil(N / W), raised to 2 when it would be 1 and N > W
ClaimedChunkSize(n, w) ==
    IF chunk_length_ceil(n, w) = 1 /\ n > w THEN 2 ELSE chunk_length_ceil(n, w)

\* C21: for N > 0 pending inputs and W workers the dispatcher splits the
\* input into contiguous chunks of size ceil(N / W), raised to 2 when that
\* would be 1 and N > W (the last chunk holds what is left); the chunks are
\* disjoint, keep the input's order and together cover all N inputs
C21_ChunkSize ==
    (Streamed /\ scan.cue_tracks # <<>>) =>
        /\ ChunksCover
        /\ \A w \in 1..Len(handles) :
              /\ Len(handles[w].chunk) >= 1
              /\ Len(handles[w].chunk) <= ClaimedChunkSize(Len(scan.cue_tracks), num_cpus)
              /\ w < Len(handles) =>
                    Len(handles[w].chunk) = ClaimedChunkSize(Len(scan.cue_tracks), num_cpus)

\* The worker count: the --threads value when one is given, otherwise the
\* available parallelism
Workers == IF cfg.max_threads > 0 THEN cfg.max_threads ELSE num_cpus

\* C22: for every N and every worker count W (the explicit override when one
\* is given, otherwise the available parallelism) the number of threads the
\* dispatcher spawns, and so the number of Analyzer calls in progress at
\* once, never exceeds W
C22_BoundedPool == Len(handles) <= Workers

-----------------------------------------------------------------------------
(* Properties of the channel between the threads and the reducer *)

\* The pairs the threads have still to send, in the channel, in the
\* reducer's hand, and those the reducer is done with
ToSend == UNION {outcomes_of_cue_tracks(handles[w].chunk) : w \in DOMAIN handles}
InChannel == SeqToSet(chan.queue)
InHand == IF in_hand.kind = "item" THEN {in_hand.item} ELSE {}

\* How many pairs there are at each of these places
PairCount ==
    LET lens == [w \in DOMAIN handles |-> Len(handles[w].chunk)]
        Sum[k \in 0..Len(lens)] == IF k = 0 THEN 0 ELSE Sum[k - 1] + lens[k]
    IN  Sum[Len(lens)] + Len(chan.queue) + Cardinality(InHand) + Cardinality(obs.handled)

\* Tracks sent by all threads so far
SentCount ==
    LET Sum[k \in 0..Len(handles)] == IF k = 0 THEN 0 ELSE Sum[k - 1] + handles[k].sent
    IN  Sum[Len(handles)]

\* The drain ran to its end and Ctrl-C never came
DrainedUncancelled == obs.loop = "cues done" /\ ~obs.cancelled

\* C23: in a run that is not cancelled every pending input is analysed once,
\* one pair with its identity and its own outcome is sent, and the reducer
\* receives it once: at every moment each input's pair is at exactly one
\* place (to be sent, in the channel, in the reducer's hand, or done), and
\* when the drain has ended every pair is done and the reducer has counted
\* each once
C23_ExactlyOnce ==
    ~obs.cancelled =>
        /\ ToSend \cup InChannel \cup InHand \cup obs.handled
              = outcomes_of_cue_tracks(scan.cue_tracks)
        /\ PairCount = Len(scan.cue_tracks)
        /\ obs.loop = "cues done" =>
              /\ obs.handled = outcomes_of_cue_tracks(scan.cue_tracks)
              /\ SentCount = Len(scan.cue_tracks)
              /\ red.analysed + Len(red.failed) = Len(scan.cue_tracks)

\* Two threads have sent three tracks between them and the drain has ended
C23_Witness ==
    /\ DrainedUncancelled
    /\ Len(handles) >= 2
    /\ Len(scan.cue_tracks) >= 3
    /\ red.analysed + Len(red.failed) = 3

\* C24: if every Analyzer call returns, then for every N >= 0 the reducer's
\* receive loop ends: after all N outcomes when Ctrl-C did not come, or no
\* later than that when it did; and it does not end before the channel is
\* drained unless it broke out at the flag
C24_DrainTerminates ==
    /\ <>(pc # "cue_tracks")
    /\ [](obs.loop = "cues done" =>
             obs.handled = outcomes_of_cue_tracks(scan.cue_tracks))
    /\ [](obs.loop = "broken" => obs.cancelled /\ obs.handled # {})

\* The loop has ended on the closed channel with nothing to analyse
C24_Witness == obs.loop = "cues done" /\ scan.cue_tracks = <<>>

-----------------------------------------------------------------------------
(* Properties of the rows the cue reducer writes *)

\* The pairs whose loop body has run: those done, and the one in hand once
\* it is reduced
BodyDone ==
    obs.handled \cup (IF in_hand.kind = "item" /\ in_hand.reduced THEN {in_hand.item} ELSE {})

\* Where a pair's track stands in the pending list
SheetPosition(o) ==
    CHOOSE i \in 1..Len(scan.cue_tracks) :
        scan.cue_tracks[i].track.track_path = o.track.track_path

\* The duration the sheet gives the i-th track: to the start of the next
SheetDuration(i) == scan.cue_tracks[i + 1].track.start - scan.cue_tracks[i].track.start

\* The row of a pair's track
CueRow(o) == {r \in Tracks : r.File = ToNative(o.track.track_path)}

\* C25: for a cue track analysed successfully the row is written with the
\* sheet's metadata, and its duration is the one the decoder measured if and
\* only if the track is the sheet's last (the one with the sentinel
\* duration); every other track has the duration computed from the sheet
C25_SentinelDuration ==
    \A o \in BodyDone :
        o.ok =>
            /\ CueRow(o) # {}
            /\ \A r \in CueRow(o) :
                  /\ r.meta.title = o.track.title
                  /\ r.meta.artist = o.track.artist
                  /\ r.meta.album_artist = o.track.album_artist
                  /\ r.meta.album = o.track.album
                  /\ r.meta.genre = o.track.genre
                  /\ r.analysis = o.analysis
                  /\ r.meta.duration = o.duration <=>
                        SheetPosition(o) = Len(scan.cue_tracks)
                  /\ SheetPosition(o) < Len(scan.cue_tracks) =>
                        r.meta.duration = SheetDuration(SheetPosition(o))

\* The rows of a sheet's last track and of an earlier one have been written
C25_Witness ==
    \E o, q \in BodyDone :
        /\ o.ok /\ q.ok
        /\ SheetPosition(o) = Len(scan.cue_tracks)
        /\ SheetPosition(q) < Len(scan.cue_tracks)
        /\ CueRow(o) # {} /\ CueRow(q) # {}

-----------------------------------------------------------------------------
(* Properties of the rows the plain-file reducer writes *)

\* The reducer's loop body runs on the successful outcome of a plain file
ReducesPlainOk ==
    /\ InReducer
    /\ in_hand.kind = "item"
    /\ ~in_hand.reduced
    /\ in_hand.item.ok
    /\ in_hand.item.kind = "plain"
    /\ in_hand' = [in_hand EXCEPT !.reduced = TRUE]

\* The tags embedded in the file in hand, and the fields the Analyzer reported
EmbeddedTags == tags_read(in_hand.item.root, in_hand.item.path).meta
ReportedTags == in_hand.item.meta

\* C26: on the successful outcome of a plain file the reducer stores the
\* embedded tags when they are not empty and the Analyzer's fields otherwise,
\* puts the file on the tag-error list exactly when both are empty, and in
\* all three cases upserts the row with the feature vector and counts the
\* file as analysed
C26_TagFallback ==
    [][ReducesPlainOk =>
          /\ \E r \in Tracks' :
                /\ r.File = StoredKey(ExpectedKey(in_hand.item))
                /\ r.analysis = in_hand.item.analysis
                /\ r.meta = IF ~is_empty(EmbeddedTags) THEN EmbeddedTags ELSE ReportedTags
          /\ red'.tag_error =
                IF is_empty(EmbeddedTags) /\ is_empty(ReportedTags)
                THEN Append(red.tag_error, ItemName(in_hand.item))
                ELSE red.tag_error
          /\ red'.analysed = red.analysed + 1]_vars

\* One loop has stored a file's embedded tags or the Analyzer's fields for
\* another, and has put a third on the tag-error list
C26_Witness ==
    /\ InReducer
    /\ red.tag_error # <<>>
    /\ red.analysed >= 2
    /\ \E r \in Tracks : ~is_empty(r.meta) /\ r.analysis = AnalysisOf(PlainF)

-----------------------------------------------------------------------------
(* db.rs when a write statement returns Err *)

\* The DELETE loop of remove_old giving up at the first statement that fails
delete_rows_abort(T, keys, failing) ==
    IF keys \cap failing # {} THEN T ELSE {r \in T : r.File \notin keys}

\* The DELETE loop of remove_old: one statement per selected key; a statement
\* of `failing` returns Err, is logged and leaves its row
delete_rows(T, keys, failing) == {r \in T : r.File \notin (keys \ failing)}

\* The count check of remove_old without the number selected
count_check_plain(count_before, num_to_remove, count_now) == count_now # count_before

\* The count check of remove_old: TRUE when "Failed to remove all tracks" is logged
count_check(count_before, num_to_remove, count_now) ==
    (count_now + num_to_remove) # count_before

\* Db::remove_old with what it logs: the table it leaves, the keys of the
\* "Failed to remove" lines, and whether "Failed to remove all tracks" is logged
remove_old_log(T, roots, dry_run, failing) ==
    LET keys == to_remove(T, roots)
        num_to_remove == Cardinality(keys)
        live == num_to_remove > 0 /\ ~dry_run
        count_before == get_track_count(T)
        rows == IF live THEN delete_rows(T, keys, failing) ELSE T
        count_now == get_track_count(rows)
    IN  [rows |-> rows,
         errors |-> IF live THEN keys \cap failing ELSE {},
         warned |-> live /\ count_check(count_before, num_to_remove, count_now)]

\* Db::add_track with what it logs: a failing INSERT or UPDATE is logged under
\* the path add_track was given, and the table stays as it was
add_track_log(T, path, meta, analysis, fails) ==
    IF fails
    THEN [rows |-> T, errors |-> {path}]
    ELSE [rows |-> add_track(T, path, meta, analysis), errors |-> {}]

\* ffmpeg::read_tags: what ffprobe reports for a file, by the file's name
ffmpeg_read_tags(root, path) ==
    IF BaseName(path) = "d"
    THEN MetaJazz
    ELSE [EmptyMeta EXCEPT !.duration = 0]

\* update_tags: the tags it reads for a file; the build with ffmpeg asks
\* ffprobe when tags::read finds none
refresh_read(root, path) ==
    LET ftags == tags_read(root, path).meta
    IN  IF cfg.ffmpeg /\ is_empty(ftags) THEN ffmpeg_read_tags(root, path) ELSE ftags

\* update_tags: the first root under which root.join(file) exists, 0 for none
first_root(roots, file) ==
    IF \E i \in 1..Len(roots) : PathExists(roots[i], file)
    THEN CHOOSE i \in 1..Len(roots) :
            /\ PathExists(roots[i], file)
            /\ \A j \in 1..(i - 1) : ~PathExists(roots[j], file)
    ELSE 0

\* update_tags: whether the loop body reaches the UPDATE statement for a row
refresh_wanted(r, roots) ==
    /\ Find(r.File, CUE_MARKER) = 0
    /\ first_root(roots, r.File) > 0
    /\ LET ftags == refresh_read(roots[first_root(roots, r.File)], r.File)
       IN  ~is_empty(ftags) /\ ftags # r.meta

\* update_tags: a row that also takes the feature vector cached in the file
refresh_row_with_analysis(r, roots, failing) ==
    IF refresh_wanted(r, roots) /\ r.File \notin failing
    THEN [r EXCEPT !.meta = refresh_read(roots[first_root(roots, r.File)], r.File),
                   !.analysis = "none"]
    ELSE r

\* update_tags: the loop body for one row
refresh_row(r, roots, failing) ==
    IF refresh_wanted(r, roots) /\ r.File \notin failing
    THEN [r EXCEPT !.meta = refresh_read(roots[first_root(roots, r.File)], r.File)]
    ELSE r

\* Db::update_tags with what it logs: the table it leaves, the keys of the
\* "Failed to update tags" lines and of the "Failed to read tags" lines
update_tags(T, roots, failing) ==
    [rows |-> {refresh_row(r, roots, failing) : r \in T},
     errors |-> {r.File : r \in {x \in T : refresh_wanted(x, roots) /\ x.File \in failing}},
     unread |-> {r.File : r \in {x \in T :
                    /\ Find(x.File, CUE_MARKER) = 0
                    /\ first_root(roots, x.File) > 0
                    /\ is_empty(refresh_read(roots[first_root(roots, x.File)], x.File))}}]

-----------------------------------------------------------------------------
(* The catalog's operations when a write statement can fail *)

Builds == {[ffmpeg |-> FALSE], [ffmpeg |-> TRUE]}

\* The keys update_tags runs an UPDATE statement for
RefreshKeys == {r.File : r \in {x \in Tracks : refresh_wanted(x, mpaths)}}

InitWrite ==
    /\ CueIdle
    /\ bad = {}
    /\ mtime = <<>>
    /\ cached = {}
    /\ env = [db_ok |-> TRUE, bad_roots |-> {}, locked |-> {}]
    /\ run = 0
    /\ pc = "idle"
    /\ root_i = 0
    /\ scan = EmptyScan
    /\ todo = {}
    /\ in_hand = [kind |-> "none"]
    /\ red = NewReducer
    /\ changes_made = FALSE
    /\ TERMINATE_ANALYSIS_FLAG = FALSE
    /\ obs = NewObs
    /\ DispatchIdle
    /\ cfg \in Builds
    /\ windows \in BOOLEAN
    /\ fs \in FsPool
    /\ Tracks = {}
    /\ nops = 0
    /\ hist = [op |-> "init"]

WriteFrame == UNCHANGED <<windows, fs, cuevars, runvars>>

AddTrackWrite ==
    /\ nops < MaxDbOps
    /\ \E path \in KeyPool, t \in TrackPool, fails \in BOOLEAN :
        LET out == add_track_log(Tracks, path, t.meta, t.analysis, fails)
        IN  /\ Tracks' = out.rows
            /\ hist' = [op |-> "add_track", path |-> path, meta |-> t.meta,
                        analysis |-> t.analysis, before |-> Tracks,
                        failing |-> IF fails THEN {path} ELSE {},
                        errors |-> out.errors]
    /\ nops' = nops + 1
    /\ WriteFrame

RemoveOldWrite ==
    /\ nops < MaxDbOps
    /\ \E dry_run \in BOOLEAN :
       \E failing \in SUBSET (IF dry_run THEN {} ELSE to_remove(Tracks, mpaths)) :
        LET out == remove_old_log(Tracks, mpaths, dry_run, failing)
        IN  /\ Tracks' = out.rows
            /\ hist' = [op |-> "remove_old", dry_run |-> dry_run, before |-> Tracks,
                        failing |-> failing, errors |-> out.errors,
                        warned |-> out.warned]
    /\ nops' = nops + 1
    /\ WriteFrame

UpdateTags ==
    /\ nops < MaxDbOps
    /\ \E failing \in SUBSET RefreshKeys :
        LET out == update_tags(Tracks, mpaths, failing)
        IN  /\ Tracks' = out.rows
            /\ hist' = [op |-> "update_tags", before |-> Tracks,
                        failing |-> failing, errors |-> out.errors,
                        unread |-> out.unread]
    /\ nops' = nops + 1
    /\ WriteFrame

NextWrite == AddTrackWrite \/ RemoveOldWrite \/ UpdateTags \/ UpdateIgnore

SpecWrite == InitWrite /\ [][NextWrite]_vars

-----------------------------------------------------------------------------
(* Properties of the prune's count check *)

LivePrune == hist.op = "remove_old" /\ ~hist.dry_run

\* The keys a prune selected for removal
Selected == to_remove(hist.before, mpaths)

\* C27: after the deletes of a live prune the row count is compared with the
\* count before minus the number of rows selected; the two are equal whenever
\* every delete succeeded, the warning is logged exactly when they differ,
\* and the prune returns with every other selected row removed
C27_PruneCountCheck ==
    LivePrune =>
        /\ hist.warned <=>
              Cardinality(Tracks) # Cardinality(hist.before) - Cardinality(Selected)
        /\ Selected \cap hist.failing = {} =>
              /\ Cardinality(Tracks) = Cardinality(hist.before) - Cardinality(Selected)
              /\ ~hist.warned
        /\ Tracks = {r \in hist.before : r.File \notin (Selected \ hist.failing)}

\* A live prune has removed one row, failed to remove another and warned
C27_Witness ==
    /\ LivePrune
    /\ hist.warned
    /\ Cardinality(Selected) = 2
    /\ Cardinality(Tracks) = Cardinality(hist.before) - 1

-----------------------------------------------------------------------------
(* Properties of a failed write statement *)

\* The row of a table stored under a key, as a set of at most one row
RowOf(T, key) == {r \in T : r.File = key}

\* The table an operation would have left had no statement failed
Unfailed ==
    CASE hist.op = "remove_old" -> remove_old(hist.before, mpaths, hist.dry_run)
      [] hist.op = "update_tags" -> update_tags(hist.before, mpaths, {}).rows
      [] OTHER -> hist.before

FailedAdd == hist.op = "add_track" /\ hist.failing # {}

\* C28: a failed INSERT, UPDATE or DELETE of one row is logged and leaves
\* that row as it was, and every other row of the same prune or tag refresh
\* ends as if no statement had failed; an upsert that follows a failed one
\* acts on the table as it was before the failure
C28_RowFailuresSkipped ==
    /\ [](hist.op \in {"remove_old", "update_tags"} =>
            /\ hist.errors = hist.failing
            /\ {r.File : r \in Tracks} \subseteq {r.File : r \in hist.before}
            /\ \A r \in hist.before :
                  IF r.File \in hist.failing
                  THEN r \in Tracks
                  ELSE RowOf(Tracks, r.File) = RowOf(Unfailed, r.File))
    /\ [](FailedAdd => Tracks = hist.before /\ hist.errors = {hist.path})
    /\ [][(FailedAdd /\ hist'.op = "add_track" /\ hist'.failing = {}) =>
            Tracks' = add_track(hist.before, hist'.path, hist'.meta, hist'.analysis)]_vars

\* A tag refresh has failed on one row and rewritten another
C28_Witness ==
    /\ hist.op = "update_tags"
    /\ hist.errors # {}
    /\ \E r \in hist.before : r \notin Tracks

-----------------------------------------------------------------------------
(* Properties of the tag refresh *)

IsCueKey(key) == \E i \in 1..Len(key) : key[i] = CUE_MARKER

\* What update_tags must leave alone in a row
Kept(r) == [rowid |-> r.rowid, File |-> r.File, analysis |-> r.analysis, Ignore |-> r.Ignore]

\* The tags found on disk for a stored key: those of the file under the
\* first root that has it
OnDisk(key) == refresh_read(mpaths[first_root(mpaths, key)], key)

\* C29: update_tags changes no row's feature vector, ignore flag or key,
\* inserts and deletes no row and leaves every cue sub-track row as it is;
\* it rewrites the metadata of a non-cue row only when the file is found
\* under some root and its tags on disk are not empty and differ from the
\* stored ones, and then stores those tags
C29_TagRefreshFrame ==
    hist.op = "update_tags" =>
        /\ {Kept(r) : r \in Tracks} = {Kept(r) : r \in hist.before}
        /\ Cardinality(Tracks) = Cardinality(hist.before)
        /\ \A r \in hist.before : IsCueKey(r.File) => r \in Tracks
        /\ \A r \in hist.before \ Tracks :
              /\ \E root \in Roots : PathExists(root, r.File)
              /\ ~is_empty(OnDisk(r.File))
              /\ OnDisk(r.File) # r.meta
              /\ \E q \in Tracks : Kept(q) = Kept(r) /\ q.meta = OnDisk(r.File)

\* A refresh has rewritten a plain row and left a cue sub-track row alone
C29_Witness ==
    /\ hist.op = "update_tags"
    /\ hist.before \ Tracks # {}
    /\ \E r \in Tracks : IsCueKey(r.File)

-----------------------------------------------------------------------------
(* The keys of cue sub-tracks and of plain files *)

\* A file whose name is a sub-track key, and one whose name holds the marker
NamedAsTrack == <<"c", ".flac", ".CUE_TRACK.", "1">>
NamedWithMarker == <<"c", ".flac", ".CUE_TRACK.", "1", ".mp3">>
SheetInDir == <<"a", "/", "c", ".flac">>

\* The files check_dir_entry is given
NamePool == {Sheet, SheetInDir, PlainA, PlainD, NamedAsTrack, NamedWithMarker}

\* The sheets beside a container
KeySheets ==
    {s \in SheetPool :
        s.ok => /\ s.title = "Album"
                /\ s.nfiles = 1 => s.performer = "AA"
                /\ \A i \in 1..Len(s.tracks) : s.tracks[i].performer = ""}

InitKeys ==
    /\ TERMINATE_ANALYSIS_FLAG = FALSE
    /\ obs = NewObs
    /\ DispatchIdle
    /\ bad = {}
    /\ mtime = <<>>
    /\ cached = {}
    /\ env = [db_ok |-> TRUE, bad_roots |-> {}, locked |-> {}]
    /\ run = 0
    /\ pc = "idle"
    /\ root_i = 0
    /\ scan = EmptyScan
    /\ todo = {}
    /\ in_hand = [kind |-> "none"]
    /\ red = NewReducer
    /\ changes_made = FALSE
    /\ cfg = CfgFfmpeg
    /\ windows \in BOOLEAN
    /\ fs = {}
    /\ Tracks = {}
    /\ nops = 0
    /\ hist = [op |-> "init"]
    /\ overflow_checks \in BOOLEAN
    /\ sheet \in KeySheets
    /\ cue_out = [outcome |-> "idle"]

KeysFrame ==
    UNCHANGED <<dbvars, overflow_checks, sheet, cfg, bad, mtime, cached, env, run, pc,
                root_i, scan, todo, red, changes_made, TERMINATE_ANALYSIS_FLAG, obs,
                num_cpus, handles, chan>>

\* check_dir_entry on a file with no sheet beside it: the key it looks up
PlainKey ==
    /\ \E pb \in NamePool :
        /\ Extension(pb) \in VALID_EXTENSIONS
        /\ in_hand' = [kind |-> "plain", pb |-> pb, sname |-> ToNative(pb)]
    /\ UNCHANGED cue_out
    /\ KeysFrame

\* check_dir_entry on a file with a sheet beside it: cue::parse
KeysParse ==
    /\ \E pb \in NamePool :
        /\ Extension(pb) \in VALID_EXTENSIONS
        /\ cue_out' \in parse_outcomes(pb, sheet)
    /\ UNCHANGED in_hand
    /\ KeysFrame

NextKeys == PlainKey \/ KeysParse

SpecKeys == InitKeys /\ [][NextKeys]_vars

\* The tracks cue::parse returned, and the key the k-th is stored under
Returned == IF cue_out.outcome = "returned" THEN cue_out.tracks ELSE <<>>
TrackKey(k) == StoredKey(ToNative(Returned[k].track_path))

\* C30: the k-th track cue::parse returns has the key of its container
\* followed by the marker and k, so the keys of a sheet are numbered from 1
\* without gaps and differ from one another; the first key is the one the
\* scanner looks up for the container, and the key of a plain file is never
\* the key of a sub-track
C30_CueTrackKeys ==
    /\ \A k \in 1..Len(Returned) :
          /\ Returned[k].track_path = Returned[k].audio_path \o <<CUE_MARKER, Itoa(k)>>
          /\ Returned[k].audio_path = Returned[1].audio_path
    /\ \A j, k \in 1..Len(Returned) : j # k => TrackKey(j) # TrackKey(k)
    /\ Returned # <<>> => TrackKey(1) = StoredKey(cue_track_sname(Returned[1].audio_path))
    /\ in_hand.kind = "plain" =>
          \A k \in 1..Len(Returned) : StoredKey(in_hand.sname) # TrackKey(k)

\* A sheet whose first track has no index has given two tracks, and a file
\* whose name holds the marker has been given its key
C30_Witness ==
    /\ Len(Returned) = 2
    /\ sheet.tracks[1].start < 0
    /\ Returned[1].audio_path = SheetInDir
    /\ in_hand.kind = "plain"
    /\ in_hand.pb = NamedWithMarker

-----------------------------------------------------------------------------
(* Properties of the channel's capacity *)

\* A capacity below the length of the longest sheet
ChannelCapacity == MaxItems - 1

\* The outcomes sent and not yet received
InFlight == Len(chan.queue)

\* C31: the channel between the threads and the reducer is bounded: the
\* outcomes sent and not yet received never exceed a fixed capacity, and a
\* thread that finds the channel full waits for the reducer to receive
C31_BoundedChannel ==
    /\ InFlight <= ChannelCapacity
    /\ \A w \in DOMAIN handles :
          (handles[w].at = "analysing" /\ chan.rx /\ InFlight >= ChannelCapacity)
              => ~ENABLED WorkerSend(w)

-----------------------------------------------------------------------------
(* analyse_files, one run over a catalog that earlier runs have left *)

\* Command lines: a dry run and a live run with an ignore file, each in
\* both builds
CfgDryIgnore ==
    [CfgDefault EXCEPT !.dry_run = TRUE,
                       !.ignore = [exists |-> TRUE, lines |-> <<LineRock>>]]
CfgLiveIgnore ==
    [CfgDefault EXCEPT !.ignore = [exists |-> TRUE, lines |-> <<LineRock>>]]
CfgDryFfmpeg == [CfgFfmpeg EXCEPT !.dry_run = TRUE]

\* A live run whose ignore file names the genre of the file with a cached vector
LineJazz == [sql |-> TRUE, text |-> "Jazz"]
CfgLiveJazz ==
    [CfgDefault EXCEPT !.ignore = [exists |-> TRUE, lines |-> <<LineJazz>>]]

\* Music folders: an untagged file and one whose tags carry a vector
FsCached == {<<"R1", PlainD>>, <<"R2", PlainE>>}

\* Music folders that hold a file of the same name each
FsTwin == {<<"R1", PlainA>>, <<"R2", PlainA>>, <<"R2", PlainD>>}

\* The runs made: command line, music folders, the inputs the Analyzer
\* fails on, and the paths that have a row when the run starts
SyncPool ==
    { [cfg |-> CfgDryIgnore, fs |-> FsCached, bad |-> {}, known |-> <<PlainA>>],
      [cfg |-> CfgLiveIgnore, fs |-> FsCached, bad |-> {}, known |-> <<PlainA>>],
      [cfg |-> CfgDryFfmpeg, fs |-> FsCue, bad |-> {}, known |-> <<PlainF>>],
      [cfg |-> CfgFfmpeg, fs |-> FsCue, bad |-> {}, known |-> <<PlainF>>],
      [cfg |-> CfgLiveIgnore, fs |-> FsTwin, bad |-> {}, known |-> <<>>],
      [cfg |-> CfgLiveIgnore, fs |-> FsTwin, bad |-> {PlainA}, known |-> <<>>],
      [cfg |-> CfgLiveJazz, fs |-> FsCached, bad |-> {}, known |-> <<PlainD>>],
      [cfg |-> CfgLiveJazz, fs |-> FsCached, bad |-> {PlainD}, known |-> <<>>] }

InitSync ==
    /\ CueIdle
    /\ windows \in BOOLEAN
    /\ \E s \in SyncPool :
          /\ cfg = s.cfg /\ fs = s.fs /\ bad = s.bad
          /\ Tracks = catalog_with(s.known)
          /\ hist = [op |-> "run", before |-> catalog_with(s.known)]
    /\ env = EnvOk
    /\ nops = 0
    /\ mtime = [f \in fs |-> 0]
    /\ cached = {}
    /\ run = 1
    /\ pc = "start"
    /\ root_i = 0
    /\ scan = EmptyScan
    /\ todo = {}
    /\ in_hand = [kind |-> "none"]
    /\ red = NewReducer
    /\ changes_made = FALSE
    /\ TERMINATE_ANALYSIS_FLAG = FALSE
    /\ obs = NewObs
    /\ DispatchIdle

NextSync ==
    \/ Start
    \/ ScanRoot
    \/ Dispatch
    \/ Recv
    \/ Reduce
    \/ Poll
    \/ LoopEnd
    \/ StartCues
    \/ Close
    \/ CtrlC

SpecSync == InitSync /\ [][NextSync]_vars

-----------------------------------------------------------------------------
(* Properties of a dry run *)

\* C32: in a run with the dry-run flag the catalog's rows stay as they were
\* when the run began: the prune deletes none, the scan inserts none (not
\* even for a file whose tags carry a feature vector), and no item is
\* dispatched or reduced
C32_DryRunWritesNothing ==
    cfg.dry_run =>
        /\ Tracks = hist.before
        /\ obs.writes = 0
        /\ ~InReducer
        /\ todo = {}
        /\ in_hand.kind = "none"
        /\ obs.handled = {}
        /\ ~changes_made

\* A dry run has reached its end past a row whose file is gone, a file with
\* a cached vector and a file to analyse
C32_Witness ==
    /\ cfg.dry_run
    /\ pc = "close"
    /\ to_remove(Tracks, mpaths) # {}
    /\ scan.tagged_file_count > 0
    /\ obs.discovered > 0

-----------------------------------------------------------------------------
(* Properties of the upsert and the ignore flag *)

\* The rows stored under the key of the last add_track, before and after it
UpsertOld == {r \in hist.before : r.File = StoredKey(hist.path)}
UpsertNew == {r \in Tracks : r.File = StoredKey(hist.path)}

\* C33: add_track on an absent key creates the row with ignore flag 0,
\* add_track on a present key leaves that row's ignore flag as it was, and
\* no add_track changes any other row
C33_UpsertKeepsIgnore ==
    hist.op = "add_track" =>
        /\ UpsertNew # {}
        /\ UpsertOld = {} => \A r \in UpsertNew : r.Ignore = 0
        /\ \A o \in UpsertOld : \A r \in UpsertNew : r.Ignore = o.Ignore
        /\ Tracks \ UpsertNew = hist.before \ UpsertOld

\* A flagged row has been upserted with new tags next to another row
C33_Witness ==
    /\ hist.op = "add_track"
    /\ \E o \in UpsertOld : o.Ignore = 1 /\ o.meta # hist.meta
    /\ \E r \in UpsertNew : r.Ignore = 1 /\ r.meta = hist.meta

-----------------------------------------------------------------------------
(* Properties of a sheet that an earlier run left incomplete *)

\* The sub-tracks of the sheet beside c.flac that have no row
SheetMissing ==
    {k \in 1..Len(cue_parse(Sheet)) :
        \A r \in Tracks : r.File # StoredKey(ToNative(cue_parse(Sheet)[k].track_path))}

\* The scan has queued the sheet: its tracks, or in a build without ffmpeg
\* the cue file
SheetQueued ==
    \/ \E i \in 1..Len(scan.cue_tracks) : scan.cue_tracks[i].track.audio_path = Sheet
    \/ \E i \in 1..Len(scan.track_paths) : scan.track_paths[i].path = SheetCue

\* A later run has scanned the folder that holds c.flac and c.cue, both as
\* the run before left them
RescannedSheet ==
    /\ pc = "dispatch"
    /\ obs.prev.valid
    /\ ~obs.prev.env_changed
    /\ cfg.max_num_files = 0
    /\ <<mpaths[root_i], Sheet>> \in fs
    /\ <<mpaths[root_i], SheetCue>> \in fs

\* C34: when a run has left at least one sub-track of a sheet without a
\* row, the next run, with container and sheet unchanged, queues the sheet
\* again
C34_IncompleteSheetRequeued ==
    (RescannedSheet /\ SheetMissing # {}) => SheetQueued

-----------------------------------------------------------------------------
(* Properties of a path that lies under two roots *)

\* The items handed to the Analyzer so far in this run and still known
Dispatched ==
    obs.handled \cup todo \cup (IF in_hand.kind = "item" THEN {in_hand.item} ELSE {})

\* The root-relative paths found under every root
TwinPaths == {p \in {e[2] : e \in fs} : \A root \in Roots : <<root, p>> \in fs}

\* C35: a path that exists under two roots is handed to the Analyzer at most
\* once in a run, and a run that is not interrupted ends with exactly one
\* row for its key
C35_OncePerKey ==
    /\ \A a, b \in Dispatched :
          StoredKey(ExpectedKey(a)) = StoredKey(ExpectedKey(b)) => a.root = b.root
    /\ (pc = "done" /\ ~cfg.dry_run /\ ~obs.cancelled) =>
          \A p \in TwinPaths :
             Cardinality({r \in Tracks : r.File = StoredKey(ToNative(p))}) = 1

-----------------------------------------------------------------------------
(* Properties of the ignore flags at the end of a run *)

\* A row without its ignore flag
Unflagged(r) == [r EXCEPT !.Ignore = 0]

\* The run has inserted or rewritten a row
RowsWritten ==
    \E r \in Tracks : Unflagged(r) \notin {Unflagged(b) : b \in hist.before}

\* A row selected by a line of the run's ignore file
Ruled(r) == \E i \in 1..Len(cfg.ignore.lines) : LineMatches(r, cfg.ignore.lines[i])

\* A live run with an ignore file
LiveWithRules == ~cfg.dry_run /\ cfg.ignore.exists

\* C36: in a live run with an ignore file, when the run has inserted or
\* updated a row (by analysis or from a vector cached in a file's tags) the
\* flags are cleared and applied again after the catalog is closed, so that
\* no row matching a rule ends the run unflagged; they are applied again in
\* that case only
C36_IgnoreFollowsRows ==
    /\ []((LiveWithRules /\ pc = "done" /\ RowsWritten) =>
            \A r \in Tracks : Ruled(r) => r.Ignore = 1)
    /\ [][(LiveWithRules /\ pc = "close" /\ pc' = "done") =>
            (obs'.writes = obs.writes + 1 <=> RowsWritten)]_vars

-----------------------------------------------------------------------------
(* Properties of a send on a channel whose Receiver is dropped *)

\* The threads whose send found the Receiver gone
FailedSends == {w \in DOMAIN handles : handles[w].at = "panicked"}

\* C37: in every interleaving, also when the flag is set while threads have
\* tracks left in their chunks, no thread sends an outcome after the reducer
\* has stopped receiving and the Receiver is dropped
C37_NoSendAfterDrop ==
    /\ [](FailedSends = {})
    /\ [][\A w \in DOMAIN handles :
            (handles[w].at = "analysing" /\ handles'[w].at # "analysing"
               /\ handles'[w].at # "killed") => chan.rx]_vars

-----------------------------------------------------------------------------
(* Properties of the root loop once the flag is set *)

\* The reducer is about to store the outcome it holds
ReducingNow == InReducer /\ in_hand.kind = "item" /\ ~in_hand.reduced

\* A step that hands the tracks of a root to one of the two reducers
RootDispatched ==
    \/ pc = "dispatch" /\ pc' = "files"
    \/ pc = "cues" /\ pc' = "cue_tracks"

\* A step of get_file_list that changes the table
ScanInserts == pc = "scan" /\ Tracks' # Tracks

\* C38: once the flag is set the run writes the table only for the outcome
\* that the reducer holds; no root is dispatched and no scan inserts a row
C38_NoWritesAfterCancel ==
    [][TERMINATE_ANALYSIS_FLAG =>
          /\ Tracks' # Tracks => ReducingNow
          /\ ~RootDispatched
          /\ ~ScanInserts]_vars

-----------------------------------------------------------------------------
(* Db::export, from `let total = tracks.len()` on: one reporting thread, *)
(* cpu_threads worker threads, and the joins                              *)

MaxExport == 4      \* exportable tracks handed to the worker threads

\* The list `tracks` after the query: scan.track_paths holds it in SpecExport
ExportTracksOf(n) == [i \in 1..n |-> [file |-> i]]

\* match max_threads { 0 => num_cpus::get(), _ => max_threads }
cpu_threads == IF cfg.max_threads = 0 THEN num_cpus ELSE cfg.max_threads

\* let chunk_size = total/cpu_threads
chunk_size(total, threads) == total \div threads

\* let start = tid * chunk_size
export_start(tid, total, threads) == tid * chunk_size(total, threads)

\* A thread that ends its range at start + chunk_size, the last one too
export_end_plain(tid, total, threads) ==
    export_start(tid, total, threads) + chunk_size(total, threads)

\* let end = if tid+1 == num_threads { total } else { start + chunk_size }
export_end(tid, total, threads) ==
    IF tid + 1 = threads THEN total
    ELSE export_start(tid, total, threads) + chunk_size(total, threads)

\* The reporting thread's counters
NewReport == [processed |-> 0, had_tags |-> 0, failed_to_write |-> 0, exported |-> 0]

\* processed+=1 and the three-way count of a response
count_resp(r, resp) ==
    [r EXCEPT !.processed = @ + 1,
              !.had_tags = IF resp = 0 THEN @ + 1 ELSE @,
              !.failed_to_write = IF resp = 1 THEN @ + 1 ELSE @,
              !.exported = IF resp \notin {0, 1} THEN @ + 1 ELSE @]

\* What a worker sends for a track: 0 when the file's tags already hold the
\* analysis, 1 when tags::write_analysis fails, 2 when it succeeds
Updated == {0, 1, 2}

InitExport ==
    /\ DbIdle
    /\ CueIdle
    /\ cfg \in {[CfgDefault EXCEPT !.max_threads = m] : m \in 0..MaxCpus}
    /\ num_cpus \in 1..MaxCpus
    /\ bad = {}
    /\ mtime = <<>>
    /\ cached = {}
    /\ env = EnvOk
    /\ run = 1
    /\ pc = "export"
    /\ root_i = 0
    /\ \E n \in 0..MaxExport : scan = [EmptyScan EXCEPT !.track_paths = ExportTracksOf(n)]
    /\ todo = {}
    /\ in_hand = [kind |-> "none"]
    /\ red = NewReport
    /\ changes_made = FALSE
    /\ TERMINATE_ANALYSIS_FLAG = FALSE
    /\ obs = NewObs
    /\ handles = <<>>
    /\ chan = [queue |-> <<>>, rx |-> FALSE, reporting |-> "none"]

ExportFrame ==
    UNCHANGED <<dbvars, cuevars, cfg, bad, mtime, cached, env, run, root_i, scan, todo,
                in_hand, changes_made, TERMINATE_ANALYSIS_FLAG, obs, num_cpus>>

\* "Nothing to export" and return; or the channel, the reporting thread and
\* one worker thread for each tid in 0..num_threads with its tracks[start..end]
ExportSpawn ==
    /\ pc = "export"
    /\ LET total == Len(scan.track_paths)
       IN  IF total <= 0
           THEN /\ pc' = "returned"
                /\ UNCHANGED <<handles, chan>>
           ELSE /\ pc' = "join"
                /\ chan' = [queue |-> <<>>, rx |-> TRUE, reporting |-> "running"]
                /\ handles' = [w \in 1..cpu_threads |->
                                 [start |-> export_start(w - 1, total, cpu_threads),
                                  end |-> export_end(w - 1, total, cpu_threads),
                                  next |-> export_start(w - 1, total, cpu_threads),
                                  sent |-> <<>>,
                                  at |-> "loop"]]
    /\ UNCHANGED red
    /\ ExportFrame

\* One iteration of a worker's `for track in trks`: tags::read, perhaps
\* tags::write_analysis, and sndr.send(updated).unwrap()
ExportSend(w) ==
    /\ pc = "join"
    /\ handles[w].at = "loop"
    /\ handles[w].next < handles[w].end
    /\ \E updated \in Updated :
          IF chan.rx
          THEN /\ chan' = [chan EXCEPT !.queue = Append(@, updated)]
               /\ handles' = [handles EXCEPT
                                ![w].sent = Append(@, scan.track_paths[handles[w].next + 1].file),
                                ![w].next = @ + 1]
          ELSE /\ handles' = [handles EXCEPT ![w].at = "panicked"]
               /\ UNCHANGED chan
    /\ UNCHANGED <<pc, red>>
    /\ ExportFrame

\* A worker's loop is over: the thread ends and its Sender is dropped
ExportWorkerEnd(w) ==
    /\ pc = "join"
    /\ handles[w].at = "loop"
    /\ handles[w].next >= handles[w].end
    /\ handles' = [handles EXCEPT ![w].at = "done"]
    /\ UNCHANGED <<pc, red, chan>>
    /\ ExportFrame

\* One iteration of `for resp in receiver`; at processed == total the break,
\* the end of the thread, and the drop of the Receiver
ReportRecv ==
    /\ pc = "join"
    /\ chan.reporting = "running"
    /\ chan.queue # <<>>
    /\ red' = count_resp(red, Head(chan.queue))
    /\ chan' = IF red'.processed = Len(scan.track_paths)
               THEN [queue |-> Tail(chan.queue), rx |-> FALSE, reporting |-> "finished"]
               ELSE [chan EXCEPT !.queue = Tail(@)]
    /\ UNCHANGED <<pc, handles>>
    /\ ExportFrame

\* for thread in threads { let _ = thread.join(); }: the reporting thread
\* first, then the workers; a join also returns for a thread that panicked
ExportJoin ==
    /\ pc = "join"
    /\ chan.reporting = "finished"
    /\ \A w \in DOMAIN handles : handles[w].at \in {"done", "panicked"}
    /\ pc' = "returned"
    /\ UNCHANGED <<handles, chan, red>>
    /\ ExportFrame

NextExport ==
    \/ ExportSpawn
    \/ \E w \in DOMAIN handles : ExportSend(w)
    \/ \E w \in DOMAIN handles : ExportWorkerEnd(w)
    \/ ReportRecv
    \/ ExportJoin

SpecExport == InitExport /\ [][NextExport]_vars

-----------------------------------------------------------------------------
(* Properties of Db::export's threads *)

ExportTotal == Len(scan.track_paths)

\* The worker threads whose range holds the track at index i (from 0)
Assigned(i) == {w \in DOMAIN handles : handles[w].start <= i /\ i < handles[w].end}

\* The statuses sent so far by the threads 1..w
RECURSIVE SentUpTo(_)
SentUpTo(w) == IF w = 0 THEN 0 ELSE Len(handles[w].sent) + SentUpTo(w - 1)

\* A thread has sent for the tracks of its range in order, one status each
SentInRange(w) ==
    /\ Len(handles[w].sent) = handles[w].next - handles[w].start
    /\ handles[w].next <= handles[w].end
    /\ \A k \in 1..Len(handles[w].sent) :
          handles[w].sent[k] = scan.track_paths[handles[w].start + k].file

ExportRunning == pc \in {"join", "returned"} /\ handles # <<>>

\* C39: for every total >= 1 and every thread count T >= 1 each track is in
\* the range of exactly one worker ([tid*chunk, tid*chunk+chunk), the last
\* one to the end), a worker sends one status per track of its range, the
\* reporting thread counts total statuses and then stops, and export returns
\* only when every thread has ended, and is never stuck before that
C39_ExportPartition ==
    /\ ExportRunning =>
          /\ Len(handles) = cpu_threads
          /\ \A w \in DOMAIN handles :
                /\ handles[w].start = (w - 1) * (ExportTotal \div cpu_threads)
                /\ handles[w].end = IF w = cpu_threads THEN ExportTotal
                                    ELSE handles[w].start + (ExportTotal \div cpu_threads)
                /\ SentInRange(w)
                /\ handles[w].at # "panicked"
          /\ \A i \in 0..(ExportTotal - 1) : Cardinality(Assigned(i)) = 1
          /\ red.processed + Len(chan.queue) = SentUpTo(Len(handles))
          /\ red.processed = red.had_tags + red.failed_to_write + red.exported
          /\ chan.reporting = "finished" <=> red.processed = ExportTotal
          /\ chan.rx <=> chan.reporting = "running"
    /\ (pc = "returned" /\ ExportTotal >= 1) =>
          /\ \A w \in DOMAIN handles :
                /\ handles[w].at = "done"
                /\ Len(handles[w].sent) = handles[w].end - handles[w].start
          /\ chan.reporting = "finished"
          /\ red.processed = ExportTotal
          /\ chan.queue = <<>>
    /\ pc = "join" => ENABLED NextExport

\* export has returned after threads with uneven ranges have sent everything
C39_Witness ==
    /\ pc = "returned"
    /\ cpu_threads >= 2
    /\ ExportTotal > cpu_threads
    /\ ExportTotal % cpu_threads # 0
    /\ red.processed = ExportTotal
    /\ \E w \in DOMAIN handles : Len(handles[w].sent) > ExportTotal \div cpu_threads

====
